---------------------------- MODULE Spec2Model ----------------------------
(***************************************************************************)
(* Chapter extraction of go-calibre: the ncx package (navigation parser,   *)
(* content locator, markup-to-text projector), the models package          *)
(* (Chapter) and the calibre package (entry classifier, plain-text         *)
(* segmenter, title inferencer, orchestrator).                             *)
(*                                                                         *)
(* Strings are sequences of one-character strings.  Offsets are Go's:      *)
(* 0-based, a slice s[a:b] is Slice(s, a, b), a failed search is -1.       *)
(***************************************************************************)
EXTENDS Integers, Sequences, FiniteSets, TLC

VARIABLES
    pc,        \* position of the running operation
    ncx,       \* the NCX document: [NavPoints]
    toc,       \* []TOCEntry returned by GetTOC
    archive,   \* the EPUB's zip listing: sequence of [Name, Data]
    entries,   \* chapterEntries of extractChaptersFromOriginalNCX
    ranges,    \* per entry, what GetChapterContentRange located
    chapters,  \* []models.Chapter built so far / returned
    err,       \* error returned to the caller ("" is nil)
    text,      \* plain text handed to splitIntoChapters
    parts,     \* parts of splitIntoChapters
    trace,     \* strategies started, in order, with what each returned
    env        \* the book at hand and what its environment answered

vars == <<pc, ncx, toc, archive, entries, ranges, chapters, err, text,
          parts, trace, env>>

-----------------------------------------------------------------------------
(* package strings                                                         *)

\* a local variable: v is computed once and bound to x in F(x)
With(v, F(_)) == CHOOSE y \in {F(x) : x \in {v}} : TRUE

Min(S) == CHOOSE x \in S : \A y \in S : x <= y
Max(S) == 0 - Min({0 - x : x \in S})

\* s[a:b]
Slice(s, a, b) == SubSeq(s, a + 1, b)

\* s[a:]
SliceFrom(s, a) == SubSeq(s, a + 1, Len(s))

\* all offsets at which p occurs in s
Occurrences(s, p) ==
    {i \in 0..(Len(s) - Len(p)) : \A k \in 1..Len(p) : s[i + k] = p[k]}

\* strings.Index
Index(s, p) ==
    With(Occurrences(s, p), LAMBDA occ : IF occ = {} THEN -1 ELSE Min(occ))

\* strings.Contains
Contains(s, p) == Occurrences(s, p) # {}

\* strings.HasSuffix
HasSuffix(s, p) ==
    /\ Len(p) <= Len(s)
    /\ \A k \in 1..Len(p) : s[Len(s) - Len(p) + k] = p[k]

\* strings.HasPrefix
HasPrefix(s, p) ==
    /\ Len(p) <= Len(s)
    /\ \A k \in 1..Len(p) : s[k] = p[k]

LowerLetters ==
    <<"a","b","c","d","e","f","g","h","i","j","k","l","m",
      "n","o","p","q","r","s","t","u","v","w","x","y","z">>
UpperLetters ==
    <<"A","B","C","D","E","F","G","H","I","J","K","L","M",
      "N","O","P","Q","R","S","T","U","V","W","X","Y","Z">>
Digits == {"0","1","2","3","4","5","6","7","8","9"}

IsUpper(c) == \E k \in 1..26 : UpperLetters[k] = c
IsLower(c) == \E k \in 1..26 : LowerLetters[k] = c
IsDigit(c) == c \in Digits
\* regexp \w
IsWordChar(c) == IsUpper(c) \/ IsLower(c) \/ IsDigit(c) \/ c = "_"

ToLowerChar(c) ==
    IF IsUpper(c) THEN LowerLetters[CHOOSE k \in 1..26 : UpperLetters[k] = c]
    ELSE c
ToUpperChar(c) ==
    IF IsLower(c) THEN UpperLetters[CHOOSE k \in 1..26 : LowerLetters[k] = c]
    ELSE c

\* A byte below 0x80 is written as its character.  A byte of a multi-byte
\* UTF-8 sequence is written as its two hexadecimal digits: C8 BA is U+023A,
\* whose lower case U+2C65 is E2 B1 A5, and EF BF BD is U+FFFD.
HighBytes == {"C8", "BA", "E2", "B1", "A5", "EF", "BF", "BD"}

\* no byte of s is 0x80 or above
IsASCII(s) == \A k \in 1..Len(s) : s[k] \notin HighBytes

RECURSIVE MapToLower(_)
\* strings.Map(unicode.ToLower, s): rune by rune; U+023A becomes the longer
\* U+2C65, a byte that starts no valid sequence becomes U+FFFD
MapToLower(s) ==
    IF s = <<>> THEN <<>>
    ELSE IF Len(s) >= 2 /\ SubSeq(s, 1, 2) = <<"C8", "BA">>
         THEN <<"E2", "B1", "A5">> \o MapToLower(SubSeq(s, 3, Len(s)))
    ELSE IF Len(s) >= 3 /\ SubSeq(s, 1, 3) \in {<<"E2", "B1", "A5">>, <<"EF", "BF", "BD">>}
         THEN SubSeq(s, 1, 3) \o MapToLower(SubSeq(s, 4, Len(s)))
    ELSE IF s[1] \in HighBytes
         THEN <<"EF", "BF", "BD">> \o MapToLower(Tail(s))
    ELSE <<ToLowerChar(s[1])>> \o MapToLower(Tail(s))

\* strings.ToLower: byte by byte on ASCII input, strings.Map otherwise
ToLower(s) ==
    IF IsASCII(s) THEN [k \in 1..Len(s) |-> ToLowerChar(s[k])]
    ELSE MapToLower(s)

\* strings.ToUpper on ASCII input
ToUpper(s) == [k \in 1..Len(s) |-> ToUpperChar(s[k])]

\* unicode.IsSpace on the ASCII range (TrimSpace, Fields)
IsSpace(c) == c \in {" ", "\t", "\n", "\r", "\f"}

\* regexp \s
IsReSpace(c) == c \in {" ", "\t", "\n", "\r", "\f"}

\* strings.TrimSpace
TrimSpace(s) ==
    With({k \in 1..Len(s) : ~IsSpace(s[k])},
         LAMBDA ns : IF ns = {} THEN <<>> ELSE SubSeq(s, Min(ns), Max(ns)))

\* the elements of a finite set of integers in ascending order
SortedSeq(S) ==
    With(S, LAMBDA T :
        IF T = {} THEN <<>>
        ELSE With(Min(T) - 1, LAMBDA lo :
                 SelectSeq([k \in 1..(Max(T) - lo) |-> lo + k], LAMBDA x : x \in T)))

\* strings.Split(s, sep) for a one-character separator
Split(s, sep) ==
    With(SortedSeq({k \in 1..Len(s) : s[k] = sep}), LAMBDA cuts :
        LET n      == Len(cuts)
            cut(j) == IF j = 0 THEN 0 ELSE IF j = n + 1 THEN Len(s) + 1 ELSE cuts[j]
        IN  [j \in 1..(n + 1) |-> SubSeq(s, cut(j - 1) + 1, cut(j) - 1)])

\* where the words of strings.Fields(s) start
FieldStarts(s) ==
    {k \in 1..Len(s) : ~IsSpace(s[k]) /\ (k = 1 \/ IsSpace(s[k - 1]))}

\* where the words of strings.Fields(s) end
FieldEnds(s) ==
    {k \in 1..Len(s) : ~IsSpace(s[k]) /\ (k = Len(s) \/ IsSpace(s[k + 1]))}

\* strings.Fields
Fields(s) ==
    With(SortedSeq(FieldStarts(s)), LAMBDA st :
    With(SortedSeq(FieldEnds(s)), LAMBDA en :
        [j \in 1..Len(st) |-> SubSeq(s, st[j], en[j])]))

RECURSIVE Join(_, _)
\* strings.Join
Join(ss, sep) ==
    IF Len(ss) = 0 THEN <<>>
    ELSE IF Len(ss) = 1 THEN ss[1]
    ELSE ss[1] \o sep \o Join(Tail(ss), sep)

RECURSIVE ReplaceAll(_, _, _)
\* strings.ReplaceAll for a non-empty old
ReplaceAll(s, old, new) ==
    With(Index(s, old), LAMBDA i :
        IF i = -1 THEN s
        ELSE Slice(s, 0, i) \o new \o ReplaceAll(SliceFrom(s, i + Len(old)), old, new))


\* strings.SplitN(s, "#", 2)
SplitN2(s, sep) ==
    With(Index(s, <<sep>>), LAMBDA i :
        IF i = -1 THEN <<s>> ELSE <<Slice(s, 0, i), SliceFrom(s, i + 1)>>)

RECURSIVE CleanElems(_, _, _)
\* the element stack of filepath.Clean: drops "" and ".", resolves ".."
CleanElems(elems, out, rooted) ==
    IF Len(elems) = 0 THEN out
    ELSE LET e == Head(elems) IN
         IF e = <<>> \/ e = <<".">> THEN CleanElems(Tail(elems), out, rooted)
         ELSE IF e = <<".", ".">> THEN
              IF Len(out) > 0 /\ out[Len(out)] # <<".", ".">>
              THEN CleanElems(Tail(elems), SubSeq(out, 1, Len(out) - 1), rooted)
              ELSE IF rooted THEN CleanElems(Tail(elems), out, rooted)
              ELSE CleanElems(Tail(elems), Append(out, e), rooted)
         ELSE CleanElems(Tail(elems), Append(out, e), rooted)

\* filepath.Clean (Unix separator)
Clean(path) ==
    IF path = <<>> THEN <<".">>
    ELSE LET rooted == path[1] = "/"
             body   == Join(CleanElems(Split(path, "/"), <<>>, rooted), <<"/">>)
         IN  IF rooted THEN <<"/">> \o body
             ELSE IF body = <<>> THEN <<".">> ELSE body

-----------------------------------------------------------------------------
(* package ncx                                                             *)

\* a NavPoint is [PlayOrder, Text, Src, Children], Children a sequence of
\* NavPoints; a TOCEntry is [Title, Level, Href, Order]

RECURSIVE flattenNavPointPost(_, _)
\* mutant of flattenNavPoint: the entry is appended after its children
flattenNavPointPost(np, level) ==
    LET RECURSIVE kids(_)
        kids(cs) == IF Len(cs) = 0 THEN <<>>
                    ELSE flattenNavPointPost(Head(cs), level + 1) \o kids(Tail(cs))
    IN  kids(np.Children)
        \o <<[Title |-> TrimSpace(np.Text), Level |-> level,
              Href |-> np.Src, Order |-> np.PlayOrder]>>

RECURSIVE flattenNavPointSameLevel(_, _)
\* mutant of flattenNavPoint: children are flattened at the parent's level
flattenNavPointSameLevel(np, level) ==
    LET RECURSIVE kids(_)
        kids(cs) == IF Len(cs) = 0 THEN <<>>
                    ELSE flattenNavPointSameLevel(Head(cs), level) \o kids(Tail(cs))
    IN  <<[Title |-> TrimSpace(np.Text), Level |-> level,
           Href |-> np.Src, Order |-> np.PlayOrder]>>
        \o kids(np.Children)

RECURSIVE flattenNavPoint(_, _)
\* flattenNavPoint recursively flattens a NavPoint and its children
flattenNavPoint(np, level) ==
    LET entry == [Title |-> TrimSpace(np.Text), Level |-> level,
                  Href |-> np.Src, Order |-> np.PlayOrder]
        RECURSIVE kids(_)
        kids(cs) == IF Len(cs) = 0 THEN <<>>
                    ELSE flattenNavPoint(Head(cs), level + 1) \o kids(Tail(cs))
    IN  <<entry>> \o kids(np.Children)

RECURSIVE GetTOCFrom(_)
GetTOCFrom(nps) ==
    IF Len(nps) = 0 THEN <<>>
    ELSE flattenNavPoint(Head(nps), 1) \o GetTOCFrom(Tail(nps))

\* (ncx *NCX) GetTOC
GetTOC(doc) == GetTOCFrom(doc.NavPoints)

\* the four attribute forms extractFragmentContent searches, in its order
FragmentPatterns(f) ==
    << <<"i","d","=","\"">> \o f \o <<"\"">>,
       <<"i","d","=","'">> \o f \o <<"'">>,
       <<"n","a","m","e","=","\"">> \o f \o <<"\"">>,
       <<"n","a","m","e","=","'">> \o f \o <<"'">> >>

RECURSIVE FirstPatternIndex(_, _)
\* the loop "for _, pattern := range patterns { idx := Index; if idx != -1 break }"
FirstPatternIndex(s, patterns) ==
    IF Len(patterns) = 0 THEN -1
    ELSE With(Index(s, Head(patterns)), LAMBDA i :
            IF i # -1 THEN i ELSE FirstPatternIndex(s, Tail(patterns)))

\* mutant of EndIdx: the end fragment is searched from the start of the file
EndIdxWholeFile(html, startIdx, endFragment) ==
    IF endFragment = <<>> THEN Len(html)
    ELSE With(FirstPatternIndex(html, FragmentPatterns(endFragment)), LAMBDA i :
            IF i # -1 THEN i ELSE Len(html))

\* mutant of EndIdx: the end fragment is ignored
EndIdxToEOF(html, startIdx, endFragment) == Len(html)

\* startIdx of extractFragmentContent
StartIdx(html, startFragment) ==
    FirstPatternIndex(html, FragmentPatterns(startFragment))

\* endIdx of extractFragmentContent, for a found startIdx
EndIdx(html, startIdx, endFragment) ==
    IF endFragment = <<>> THEN Len(html)
    ELSE With(FirstPatternIndex(SliceFrom(html, startIdx + 1),
                                FragmentPatterns(endFragment)), LAMBDA i :
            IF i # -1 THEN startIdx + 1 + i ELSE Len(html))

\* the offsets [lo, hi) of the slice extractFragmentContent returns
FragmentRange(html, startFragment, endFragment) ==
    With(StartIdx(html, startFragment), LAMBDA s :
        IF s = -1 THEN [lo |-> 0, hi |-> Len(html)]
        ELSE [lo |-> s, hi |-> EndIdx(html, s, endFragment)])

\* extractFragmentContent
extractFragmentContent(html, startFragment, endFragment) ==
    With(FragmentRange(html, startFragment, endFragment), LAMBDA r :
        Slice(html, r.lo, r.hi))

\* one iteration of the loop of removeTag: "break" at either break
\* statement, "continue" with the shortened string, "panic" when html[start:]
\* is sliced beyond the end of html (start is an offset into the lower-cased
\* copy, which is longer than html when a rune grows in lower case)
removeTagStep(html, tag) ==
    LET open  == <<"<">> \o tag
        close == <<"<", "/">> \o tag \o <<">">>
    IN  With(Index(ToLower(html), open), LAMBDA start :
            IF start = -1 THEN [outcome |-> "break", html |-> html]
            ELSE IF start > Len(html) THEN [outcome |-> "panic", html |-> html]
            ELSE With(Index(SliceFrom(html, start), close), LAMBDA end :
                    IF end = -1 THEN [outcome |-> "break", html |-> html]
                    ELSE [outcome |-> "continue",
                          html |-> Slice(html, 0, start)
                                   \o SliceFrom(html, start + end + Len(close))]))

RECURSIVE removeTag(_, _)
\* removeTag, on the inputs on which no iteration panics
removeTag(html, tag) ==
    With(removeTagStep(html, tag), LAMBDA r :
        IF r.outcome = "continue" THEN removeTag(r.html, tag) ELSE r.html)

BlockTags ==
    << <<"p">>, <<"d","i","v">>, <<"b","r">>, <<"h","1">>, <<"h","2">>,
       <<"h","3">>, <<"h","4">>, <<"h","5">>, <<"h","6">>, <<"l","i">>,
       <<"t","r">> >>

RECURSIVE BlocksToNewlines(_, _)
\* the loop over the block tags of htmlToText; each round is computed before
\* the next one starts
BlocksToNewlines(html, tags) ==
    IF Len(tags) = 0 THEN html
    ELSE LET tag == Head(tags) IN
         With(ReplaceAll(html, <<"<">> \o tag, <<"\n", "<">> \o tag), LAMBDA h1 :
         With(ReplaceAll(h1, <<"<", "/">> \o tag \o <<">">>, <<"\n">>), LAMBDA h2 :
              BlocksToNewlines(h2, Tail(tags))))

\* the inTag scan of htmlToText: the characters outside any <...>
StripTags(html) ==
    With({j \in 1..Len(html) : html[j] \in {"<", ">"}}, LAMBDA brackets :
        LET inTag(c) == With({j \in brackets : j < c}, LAMBDA prev :
                            prev # {} /\ html[Max(prev)] = "<")
        IN  With(SortedSeq({c \in 1..Len(html) : c \notin brackets /\ ~inTag(c)}),
                 LAMBDA keep : [j \in 1..Len(keep) |-> html[keep[j]]]))

\* the whitespace clean-up of htmlToText
CleanLines(txt) ==
    With(Split(txt, "\n"), LAMBDA lines :
        LET trimmed == [j \in 1..Len(lines) |-> TrimSpace(lines[j])]
            NonEmpty(l) == l # <<>>
        IN  Join(SelectSeq(trimmed, NonEmpty), <<"\n", "\n">>))

\* htmlToText
htmlToText(html) ==
    LET h1 == removeTag(html, <<"s","c","r","i","p","t">>)
        h2 == removeTag(h1, <<"s","t","y","l","e">>)
        h3 == BlocksToNewlines(h2, BlockTags)
    IN  CleanLines(StripTags(h3))

\* the first archive entry GetChapterContentRange accepts, 0 if none
FindFile(files, filePath) ==
    LET hits == {k \in 1..Len(files) :
                    files[k].Name = filePath \/ HasSuffix(files[k].Name, filePath)}
    IN  IF hits = {} THEN 0 ELSE Min(hits)

\* GetChapterContentRange; the result carries, beside the returned text and
\* error, the archive entry read, the fragments handed to
\* extractFragmentContent and the offsets of the slice taken from the file
GetChapterContentRange(files, href, nextHref) ==
    LET hrefParts     == SplitN2(href, "#")
        filePath0     == hrefParts[1]
        startFragment == IF Len(hrefParts) > 1 THEN hrefParts[2] ELSE <<>>
        nextParts     == SplitN2(nextHref, "#")
        endFragment   ==
            IF /\ nextHref # <<>>
               /\ Len(nextParts) > 1
               /\ \/ nextParts[1] = filePath0
                  \/ nextParts[1] = <<>>
                  \/ HasSuffix(filePath0, nextParts[1])
            THEN nextParts[2] ELSE <<>>
        filePath      == Clean(filePath0)
        f             == FindFile(files, filePath)
    IN  IF f = 0
        THEN [err |-> "chapter file not found", content |-> <<>>,
              file |-> 0, lo |-> 0, hi |-> 0,
              startFragment |-> startFragment, endFragment |-> endFragment]
        ELSE LET html == files[f].Data
                 r    == IF startFragment # <<>>
                         THEN FragmentRange(html, startFragment, endFragment)
                         ELSE [lo |-> 0, hi |-> Len(html)]
                 cut  == IF startFragment # <<>>
                         THEN extractFragmentContent(html, startFragment, endFragment)
                         ELSE html
             IN  [err |-> "", content |-> htmlToText(cut),
                  file |-> f, lo |-> r.lo, hi |-> r.hi,
                  startFragment |-> startFragment, endFragment |-> endFragment]

\* GetChapterContent
GetChapterContent(files, href) == GetChapterContentRange(files, href, <<>>)

-----------------------------------------------------------------------------
(* package models                                                          *)

\* mutant of countWordsStep: every rune that is not white space is counted
countWordsStepEveryRune(st, r) ==
    LET isSpace == r = " " \/ r = "\t" \/ r = "\n" \/ r = "\r"
    IN  IF isSpace THEN [st EXCEPT !.inWord = FALSE]
        ELSE [st EXCEPT !.inWord = TRUE, !.count = @ + 1]

\* one iteration of the loop of countWords on rune r; st is [count, inWord]
countWordsStep(st, r) ==
    LET isSpace == r = " " \/ r = "\t" \/ r = "\n" \/ r = "\r"
    IN  IF isSpace THEN [st EXCEPT !.inWord = FALSE]
        ELSE IF ~st.inWord THEN [st EXCEPT !.inWord = TRUE, !.count = @ + 1]
        ELSE st

\* countWords, as the number of runes at which the loop increments count
countWords(txt) ==
    LET isSpace(c) == c \in {" ", "\t", "\n", "\r"}
    IN  Cardinality({k \in 1..Len(txt) :
                        ~isSpace(txt[k]) /\ (k = 1 \/ isSpace(txt[k - 1]))})

\* NewChapter
NewChapter(index, title, content) ==
    [Index |-> index, Title |-> title, Content |-> content,
     WordCount |-> countWords(content), CharCount |-> Len(content)]

-----------------------------------------------------------------------------
(* package regexp: the expressions of the calibre package, matched as the  *)
(* leftmost-first, greedy matcher of Go matches them                       *)

\* the character at offset i, "" past the end
At(s, i) == IF i >= 0 /\ i < Len(s) THEN s[i + 1] ELSE ""

IsRoman(c) == c \in {"I", "V", "X", "L", "C"}

\* the character classes \s, \d and [IVXLC]
InClass(cls, c) ==
    CASE cls = "space" -> IsReSpace(c)
      [] cls = "digit" -> IsDigit(c)
      [] cls = "roman" -> IsRoman(c)

\* end of the maximal run of characters of class cls starting at offset i
RunEnd(s, i, cls) ==
    Min({j \in i..Len(s) : j = Len(s) \/ ~InClass(cls, s[j + 1])})

HasPrefixAt(s, i, p) ==
    /\ i + Len(p) <= Len(s)
    /\ \A k \in 1..Len(p) : s[i + k] = p[k]

\* (?m)^ at offset i
LineStart(s, i) == i = 0 \/ At(s, i - 1) = "\n"

\* (?m)$ at offset i
LineEnd(s, i) == i = Len(s) \/ At(s, i) = "\n"

\* end of (\d+|[IVXLC]+) at offset i, -1 if it does not match
NumeralEnd(s, i) ==
    IF IsDigit(At(s, i)) THEN RunEnd(s, i, "digit")
    ELSE IF IsRoman(At(s, i)) THEN RunEnd(s, i, "roman")
    ELSE -1

\* end of <word>\s+(\d+|[IVXLC]+) at offset i, -1 if it does not match
WordNumeralEnd(s, i, word) ==
    IF ~HasPrefixAt(s, i, word) THEN -1
    ELSE LET a == i + Len(word)
             b == RunEnd(s, a, "space")
         IN  IF b = a THEN -1 ELSE NumeralEnd(s, b)

\* end of <run of cls>\.\s+[A-Z] at offset i, -1 if it does not match
DottedTitleEnd(s, i, cls) ==
    LET a == RunEnd(s, i, cls)
        b == RunEnd(s, a + 1, "space")
    IN  IF a > i /\ At(s, a) = "." /\ b > a + 1 /\ IsUpper(At(s, b))
        THEN b + 1 ELSE -1

\* end of <run of cls>\.\s*$ at offset i, -1 if it does not match
DottedAloneEnd(s, i, cls) ==
    LET a == RunEnd(s, i, cls)
    IN  IF a > i /\ At(s, a) = "."
        THEN LET b    == RunEnd(s, a + 1, "space")
                 ends == {j \in (a + 1)..b : LineEnd(s, j)}
             IN  IF ends = {} THEN -1 ELSE Max(ends)
        ELSE -1

ChapterWord == <<"C","h","a","p","t","e","r">>
ChapterWordUpper == <<"C","H","A","P","T","E","R">>
PartWord == <<"P","a","r","t">>

\* number of heading patterns of splitByChapterPatterns
NumPatterns == 6

\* end of the match of heading pattern k at line start i, -1 if none
PatternEnd(k, s, i) ==
    IF ~LineStart(s, i) THEN -1
    ELSE CASE k = 1 -> LET e == WordNumeralEnd(s, i, ChapterWord)
                       IN  IF e # -1 THEN e ELSE WordNumeralEnd(s, i, ChapterWordUpper)
           [] k = 2 -> DottedTitleEnd(s, i, "roman")
           [] k = 3 -> DottedTitleEnd(s, i, "digit")
           [] k = 4 -> DottedAloneEnd(s, i, "roman")
           [] k = 5 -> DottedAloneEnd(s, i, "digit")
           [] k = 6 -> WordNumeralEnd(s, i, PartWord)

\* offsets that begin a line of s
LineStarts(s) == {0} \cup {i \in 1..(Len(s) - 1) : s[i] = "\n"}

RECURSIVE PickMatches(_, _, _, _)
\* the successive non-overlapping matches among the candidate offsets
PickMatches(k, s, cands, from) ==
    LET rest == {c \in cands : c >= from}
    IN  IF rest = {} THEN <<>>
        ELSE LET m == Min(rest)
             IN  <<m>> \o PickMatches(k, s, cands, PatternEnd(k, s, m))

\* re.FindAllStringIndex(content, -1) of heading pattern k: the match starts
FindAllHeadings(k, s) ==
    PickMatches(k, s, {i \in LineStarts(s) : PatternEnd(k, s, i) # -1}, 0)

\* end of \n\s*\*\s*\*\s*\*\s*\n at offset i, -1 if it does not match
StarEnd(s, i) ==
    IF At(s, i) # "\n" THEN -1
    ELSE LET a == RunEnd(s, i + 1, "space")
             b == RunEnd(s, a + 1, "space")
             c == RunEnd(s, b + 1, "space")
             d == RunEnd(s, c + 1, "space")
             nl == {j \in (c + 1)..(d - 1) : At(s, j) = "\n"}
         IN  IF At(s, a) = "*" /\ At(s, b) = "*" /\ At(s, c) = "*" /\ nl # {}
             THEN Max(nl) + 1 ELSE -1

RECURSIVE PickStars(_, _, _)
PickStars(s, cands, from) ==
    LET rest == {c \in cands : c >= from}
    IN  IF rest = {} THEN <<>>
        ELSE LET m == Min(rest)
             IN  <<[lo |-> m, hi |-> StarEnd(s, m)]>> \o PickStars(s, cands, StarEnd(s, m))

\* re.Split(content, -1) of the star-separator expression
StarSplit(s) ==
    LET cands == {i \in 0..(Len(s) - 1) : s[i + 1] = "\n" /\ StarEnd(s, i) # -1}
        ms    == PickStars(s, cands, 0)
        n     == Len(ms)
        beg(j) == IF j = 1 THEN 0 ELSE ms[j - 1].hi
        fin(j) == IF j = n + 1 THEN Len(s) ELSE ms[j].lo
    IN  [j \in 1..(n + 1) |-> Slice(s, beg(j), fin(j))]

RECURSIVE Itoa(_)
\* fmt.Sprintf("%d", n) for n >= 0
Itoa(n) ==
    LET d == <<"0","1","2","3","4","5","6","7","8","9">>
    IN  IF n < 10 THEN <<d[n + 1]>> ELSE Itoa(n \div 10) \o <<d[(n % 10) + 1]>>

-----------------------------------------------------------------------------
(* package calibre                                                         *)

ChapterPrefix == <<"C","h","a","p","t","e","r"," ">>

\* fmt.Sprintf("Chapter %d", n)
ChapterN(n) == ChapterPrefix \o Itoa(n)

\* fmt.Sprintf("Chapter %s", v)
ChapterS(v) == ChapterPrefix \o v

skipPatterns ==
    << <<"t","r","a","n","s","c","r","i","b","e","r">>,
       <<"n","o","t","e">>,
       <<"c","o","p","y","r","i","g","h","t">>,
       <<"d","e","d","i","c","a","t","i","o","n">>,
       <<"e","p","i","g","r","a","p","h">>,
       <<"a","c","k","n","o","w","l","e","d","g","m","e","n","t">>,
       <<"a","b","o","u","t"," ","t","h","e"," ","a","u","t","h","o","r">>,
       <<"a","b","o","u","t"," ","t","h","e"," ","b","o","o","k">>,
       <<"t","h","e"," ","f","u","l","l"," ","p","r","o","j","e","c","t"," ",
         "g","u","t","e","n","b","e","r","g">>,
       <<"p","r","o","j","e","c","t"," ","g","u","t","e","n","b","e","r","g">>,
       <<"l","i","c","e","n","s","e">>,
       <<"t","h","e"," ","m","o","d","e","r","n"," ","l","i","b","r","a","r","y">>,
       <<"f","o","o","t","n","o","t","e","s">>,
       <<"e","n","d","n","o","t","e","s">>,
       <<"i","n","d","e","x">>,
       <<"b","i","b","l","i","o","g","r","a","p","h","y">>,
       <<"c","o","n","t","e","n","t","s">>,
       <<"t","a","b","l","e"," ","o","f"," ","c","o","n","t","e","n","t","s">> >>

\* the alternatives of (I{1,3}|IV|V|VI{0,3}|IX|X{0,3}|[0-9]+) but the digits
LeadNumerals ==
    { <<"I">>, <<"I","I">>, <<"I","I","I">>, <<"I","V">>, <<"V">>, <<"V","I">>,
      <<"V","I","I">>, <<"V","I","I","I">>, <<"I","X">>, <<>>, <<"X">>,
      <<"X","X">>, <<"X","X","X">> }

\* ^\s*(I{1,3}|IV|V|VI{0,3}|IX|X{0,3}|[0-9]+)\s*\.?\s+\w  matches title
LeadNumeralMatch(title) ==
    LET a     == RunEnd(title, 0, "space")
        dEnd  == RunEnd(title, a, "digit")
        ends  == {a + Len(n) : n \in {m \in LeadNumerals : HasPrefixAt(title, a, m)}}
                 \cup (a + 1)..dEnd
                 \cup 0..a
        tail(e) ==
            LET w == RunEnd(title, e, "space")
                v == RunEnd(title, w + 1, "space")
            IN  \/ w > e /\ IsWordChar(At(title, w))
                \/ At(title, w) = "." /\ v > w + 1 /\ IsWordChar(At(title, v))
    IN  \E e \in ends : tail(e)

\* (?i)^(chapter|part)\s+  matches title
LeadWordMatch(title) ==
    LET l == ToLower(title)
    IN  \/ HasPrefix(l, <<"c","h","a","p","t","e","r">>) /\ IsReSpace(At(l, 7))
        \/ HasPrefix(l, <<"p","a","r","t">>) /\ IsReSpace(At(l, 4))

\* mutant of IsChapterEntry: an entry of level 2 or deeper is kept before
\* the skip phrases are looked at
IsChapterEntryLevelFirst(entry) ==
    LET titleLower == ToLower(entry.Title)
        skip == \E k \in 1..Len(skipPatterns) : Contains(titleLower, skipPatterns[k])
    IN  \/ entry.Level >= 2 /\ ~(Len(entry.Title) < 2)
        \/ /\ ~skip
           /\ ~(Len(entry.Title) < 2)
           /\ \/ Contains(titleLower, <<"c","h","a","p","t","e","r">>)
              \/ Contains(titleLower, <<"p","a","r","t">>)
              \/ LeadNumeralMatch(entry.Title)
              \/ LeadWordMatch(entry.Title)
              \/ Len(entry.Title) > 20 /\ Contains(entry.Title, <<" ">>)

\* the body of the loop of filterChapterEntries: is the entry kept
IsChapterEntry(entry) ==
    LET titleLower == ToLower(entry.Title)
        skip == \E k \in 1..Len(skipPatterns) : Contains(titleLower, skipPatterns[k])
    IN  /\ ~skip
        /\ ~(Len(entry.Title) < 2)
        /\ \/ Contains(titleLower, <<"c","h","a","p","t","e","r">>)
           \/ Contains(titleLower, <<"p","a","r","t">>)
           \/ LeadNumeralMatch(entry.Title)
           \/ entry.Level >= 2
           \/ LeadWordMatch(entry.Title)
           \/ Len(entry.Title) > 20 /\ Contains(entry.Title, <<" ">>)

\* filterChapterEntries
filterChapterEntries(es) == SelectSeq(es, IsChapterEntry)

\* minimum number of words of a chapter of the original navigation
MinWords == 50

\* minimum number of chapters of the original navigation
MinOriginalChapters == 3

\* the href handed to GetChapterContentRange as nextHref for entry i
NextHref(es, i) == IF i + 1 <= Len(es) THEN es[i + 1].Href ELSE <<>>

RECURSIVE OriginalLoopEntryIndex(_, _, _, _)
\* mutant of OriginalLoop: a chapter takes the position of its entry as index
OriginalLoopEntryIndex(files, es, i, acc) ==
    IF i > Len(es) THEN acc
    ELSE LET title == IF es[i].Title = <<>> THEN ChapterN(i) ELSE es[i].Title IN
         With(GetChapterContentRange(files, es[i].Href, NextHref(es, i)), LAMBDA r :
         With(Append(acc.rs, r), LAMBDA rs :
             IF r.err # "" THEN OriginalLoopEntryIndex(files, es, i + 1, [acc EXCEPT !.rs = rs])
             ELSE IF Len(Fields(r.content)) < MinWords
                  THEN OriginalLoopEntryIndex(files, es, i + 1, [acc EXCEPT !.rs = rs])
             ELSE OriginalLoopEntryIndex(files, es, i + 1,
                      [chs |-> Append(acc.chs, NewChapter(i - 1, title, r.content)),
                       rs  |-> rs])))

RECURSIVE OriginalLoopAbort(_, _, _, _)
\* mutant of OriginalLoop: the loop ends at the first entry whose content
\* cannot be extracted
OriginalLoopAbort(files, es, i, acc) ==
    IF i > Len(es) THEN acc
    ELSE LET title == IF es[i].Title = <<>> THEN ChapterN(i) ELSE es[i].Title IN
         With(GetChapterContentRange(files, es[i].Href, NextHref(es, i)), LAMBDA r :
         With(Append(acc.rs, r), LAMBDA rs :
             IF r.err # "" THEN [acc EXCEPT !.rs = rs]
             ELSE IF Len(Fields(r.content)) < MinWords
                  THEN OriginalLoopAbort(files, es, i + 1, [acc EXCEPT !.rs = rs])
             ELSE OriginalLoopAbort(files, es, i + 1,
                      [chs |-> Append(acc.chs, NewChapter(Len(acc.chs), title, r.content)),
                       rs  |-> rs])))

RECURSIVE OriginalLoop(_, _, _, _)
\* the loop of extractChaptersFromOriginalNCX from entry i (1-based) on;
\* acc holds the chapters appended (chs) and, per entry visited, what
\* GetChapterContentRange located (rs)
OriginalLoop(files, es, i, acc) ==
    IF i > Len(es) THEN acc
    ELSE LET title == IF es[i].Title = <<>> THEN ChapterN(i) ELSE es[i].Title IN
         With(GetChapterContentRange(files, es[i].Href, NextHref(es, i)), LAMBDA r :
         With(Append(acc.rs, r), LAMBDA rs :
             IF r.err # "" THEN OriginalLoop(files, es, i + 1, [acc EXCEPT !.rs = rs])
             ELSE IF Len(Fields(r.content)) < MinWords
                  THEN OriginalLoop(files, es, i + 1, [acc EXCEPT !.rs = rs])
             ELSE OriginalLoop(files, es, i + 1,
                      [chs |-> Append(acc.chs, NewChapter(Len(acc.chs), title, r.content)),
                       rs  |-> rs])))

\* extractChaptersFromOriginalNCX on an EPUB [hasNCX, ncx, files]; hasNCX is
\* FALSE when ExtractNCXFromEPUB fails.  Beside the chapters and the error
\* returned, the result carries the chapterEntries and what was located for
\* each of them
extractChaptersFromOriginalNCX(epub) ==
    IF ~epub.hasNCX
    THEN [chapters |-> <<>>, err |-> "failed to extract NCX",
          entries |-> <<>>, ranges |-> <<>>]
    ELSE With(GetTOC(epub.ncx), LAMBDA tocEntries :
         IF Len(tocEntries) = 0
         THEN [chapters |-> <<>>, err |-> "no chapters found in NCX",
               entries |-> <<>>, ranges |-> <<>>]
         ELSE With(filterChapterEntries(tocEntries), LAMBDA chapterEntries :
              IF Len(chapterEntries) = 0
              THEN [chapters |-> <<>>, err |-> "no chapter entries found",
                    entries |-> <<>>, ranges |-> <<>>]
              ELSE With(OriginalLoop(epub.files, chapterEntries, 1,
                                     [chs |-> <<>>, rs |-> <<>>]), LAMBDA acc :
                   IF Len(acc.chs) = 0
                   THEN [chapters |-> <<>>, entries |-> chapterEntries,
                         ranges |-> acc.rs,
                         err |-> "failed to extract any chapter content"]
                   ELSE [chapters |-> acc.chs, err |-> "",
                         entries |-> chapterEntries, ranges |-> acc.rs])))

RECURSIVE CalibreLoop(_, _, _, _)
\* the loop of extractChaptersWithCalibreNCX from entry i (1-based) on
CalibreLoop(files, es, i, chs) ==
    IF i > Len(es) THEN chs
    ELSE LET title == IF es[i].Title = <<>> THEN ChapterN(i) ELSE es[i].Title IN
         With(GetChapterContent(files, es[i].Href), LAMBDA r :
             IF r.err # "" THEN CalibreLoop(files, es, i + 1, chs)
             ELSE CalibreLoop(files, es, i + 1,
                              Append(chs, NewChapter(i - 1, title, r.content))))

\* extractChaptersWithCalibreNCX; conv is what ebook-convert produced:
\* [ok, hasNCX, ncx, files], ok FALSE when the command failed
extractChaptersWithCalibreNCX(conv) ==
    IF ~conv.ok
    THEN [chapters |-> <<>>, err |-> "ebook-convert to EPUB failed"]
    ELSE IF ~conv.hasNCX
    THEN [chapters |-> <<>>, err |-> "failed to extract NCX"]
    ELSE With(GetTOC(conv.ncx), LAMBDA tocEntries :
         IF Len(tocEntries) = 0
         THEN [chapters |-> <<>>, err |-> "no chapters found in NCX"]
         ELSE With(CalibreLoop(conv.files, tocEntries, 1, <<>>), LAMBDA chs :
              IF Len(chs) = 0
              THEN [chapters |-> <<>>, err |-> "failed to extract any chapter content"]
              ELSE [chapters |-> chs, err |-> ""]))

\* minimum trimmed length of a part of splitByStarSeparator
MinStarPart == 500

\* minimum number of parts (and of matches) of a split
MinParts == 3

\* minimum trimmed length of a part of splitByChapterPatterns
MinHeadingPart == 100

\* mutant of splitByStarSeparator: the split is used only when more than
\* MinParts parts survive
splitByStarSeparatorMoreParts(content) ==
    LET ps       == StarSplit(content)
        trimmed  == [j \in 1..Len(ps) |-> TrimSpace(ps[j])]
        Long(t)  == Len(t) > MinStarPart
        chs      == SelectSeq(trimmed, Long)
    IN  IF Len(chs) > MinParts THEN chs ELSE <<content>>

\* splitByStarSeparator
splitByStarSeparator(content) ==
    LET ps       == StarSplit(content)
        trimmed  == [j \in 1..Len(ps) |-> TrimSpace(ps[j])]
        Long(t)  == Len(t) > MinStarPart
        chs      == SelectSeq(trimmed, Long)
    IN  IF Len(chs) >= MinParts THEN chs ELSE <<content>>

\* the parts splitByChapterPatterns builds from the match starts ms
HeadingParts(content, ms) ==
    LET n == Len(ms)
        \* lastEnd when match j is visited
        lastEnd(j) == IF j = 1 THEN 0 ELSE ms[j - 1]
        before(j)  == TrimSpace(Slice(content, lastEnd(j), ms[j]))
        kept       == {j \in 1..n : /\ ms[j] > lastEnd(j)
                                     /\ Len(before(j)) > MinHeadingPart
                                     /\ lastEnd(j) > 0}
        keptSeq    == SortedSeq(kept)
        head       == [j \in 1..Len(keptSeq) |-> before(keptSeq[j])]
        remaining  == TrimSpace(SliceFrom(content, ms[n]))
    IN  IF ms[n] < Len(content) /\ Len(remaining) > MinHeadingPart
        THEN Append(head, remaining) ELSE head

RECURSIVE PatternLoop(_, _)
\* the loop over the patterns of splitByChapterPatterns from pattern k on
PatternLoop(content, k) ==
    IF k > NumPatterns THEN <<content>>
    ELSE LET ms == FindAllHeadings(k, content)
         IN  IF Len(ms) >= MinParts
             THEN LET ps == HeadingParts(content, ms)
                  IN  IF Len(ps) >= MinParts THEN ps ELSE PatternLoop(content, k + 1)
             ELSE PatternLoop(content, k + 1)

\* mutant of splitByChapterPatterns: the content is not returned whole when
\* no pattern splits it
splitByChapterPatternsNoWhole(content) == <<>>

\* splitByChapterPatterns
splitByChapterPatterns(content) == PatternLoop(content, 1)

\* titleCase
titleCase(s) ==
    IF s = ToUpper(s) /\ Len(s) > 10
    THEN LET words == Fields(ToLower(s))
             cap   == [j \in 1..Len(words) |->
                          IF Len(words[j]) > 0
                          THEN <<ToUpperChar(words[j][1])>> \o Tail(words[j])
                          ELSE words[j]]
         IN  Join(cap, <<" ">>)
    ELSE s

AllRoman(s) == Len(s) > 0 /\ \A k \in 1..Len(s) : IsRoman(s[k])
AllDigits(s) == Len(s) > 0 /\ \A k \in 1..Len(s) : IsDigit(s[k])

\* strings.TrimSuffix(s, ".")
TrimDot(s) == IF Len(s) > 0 /\ s[Len(s)] = "." THEN SubSeq(s, 1, Len(s) - 1) ELSE s

\* mutant of formatChapterTitle: a final dot is not removed
formatChapterTitleKeepDot(title) ==
    LET t == TrimSpace(title)
    IN  IF AllRoman(t) THEN ChapterS(t)
        ELSE IF AllDigits(t) THEN ChapterS(t)
        ELSE t

\* formatChapterTitle
formatChapterTitle(title) ==
    LET t == TrimDot(TrimSpace(title))
    IN  IF AllRoman(t) THEN ChapterS(t)
        ELSE IF AllDigits(t) THEN ChapterS(t)
        ELSE t

\* the first 5 non-empty trimmed lines of content
FirstLines(content) ==
    LET lines   == Split(content, "\n")
        trimmed == [j \in 1..Len(lines) |-> TrimSpace(lines[j])]
        NonEmpty(l) == l # <<>>
        ne      == SelectSeq(trimmed, NonEmpty)
    IN  IF Len(ne) > 5 THEN SubSeq(ne, 1, 5) ELSE ne

\* mutant of detectChapterTitle: the title is the first line when that looks
\* like a title, and no positional title is made up otherwise
detectChapterTitleNoFallback(content, defaultNum) ==
    With(FirstLines(content), LAMBDA nonEmptyLines :
        IF Len(nonEmptyLines) = 0 THEN <<>>
        ELSE IF Len(nonEmptyLines[1]) < 60 /\ Len(nonEmptyLines[1]) > 3
        THEN nonEmptyLines[1]
        ELSE <<>>)

\* detectChapterTitle
detectChapterTitle(content, defaultNum) ==
    LET nonEmptyLines == FirstLines(content) IN
    IF Len(nonEmptyLines) = 0 THEN ChapterN(defaultNum)
    ELSE IF Len(nonEmptyLines) >= 2 /\ AllRoman(nonEmptyLines[1])
    THEN LET romanNum  == nonEmptyLines[1]
             titleLine == nonEmptyLines[2]
         IN  IF Len(titleLine) > 5 /\ Len(titleLine) < 100
             THEN ChapterS(romanNum) \o <<":", " ">> \o titleCase(titleLine)
             ELSE ChapterS(romanNum)
    ELSE LET firstLine == nonEmptyLines[1]
             isChapterLine ==
                 \/ WordNumeralEnd(firstLine, 0, ChapterWord) # -1
                 \/ WordNumeralEnd(firstLine, 0, ChapterWordUpper) # -1
             \* ^([IVXLC]+)\.\s+(.+)$
             a == RunEnd(firstLine, 0, "roman")
             b == RunEnd(firstLine, a + 1, "space")
             isDotted == a > 0 /\ At(firstLine, a) = "." /\ b > a + 1
             rest == IF b < Len(firstLine) THEN SliceFrom(firstLine, b)
                     ELSE SliceFrom(firstLine, b - 1)
             dottedOK == isDotted /\ (b < Len(firstLine) \/ b > a + 2)
         IN  IF isChapterLine /\ Len(firstLine) < 80 THEN firstLine
             ELSE IF dottedOK
             THEN ChapterS(SubSeq(firstLine, 1, a)) \o <<":", " ">> \o titleCase(rest)
             ELSE IF AllRoman(TrimDot(firstLine)) THEN formatChapterTitle(firstLine)
             ELSE IF AllDigits(TrimDot(firstLine)) THEN formatChapterTitle(firstLine)
             ELSE IF Len(firstLine) < 60 /\ Len(firstLine) > 3 THEN titleCase(firstLine)
             ELSE ChapterN(defaultNum)

\* parts after the page-break split of splitIntoChapters
PageBreakParts(content) == Split(content, "\f")

\* the loop of splitIntoChapters that turns the parts into chapters
ChaptersOf(ps) ==
    With(SortedSeq({j \in 1..Len(ps) : TrimSpace(ps[j]) # <<>>}), LAMBDA kept :
        [m \in 1..Len(kept) |->
            With(TrimSpace(ps[kept[m]]), LAMBDA part :
                NewChapter(kept[m] - 1, detectChapterTitle(part, kept[m]), part))])

\* mutant of StrategyFailed: the next strategy is applied in any case
StrategyFailedAlways(ps) == TRUE

\* "if len(parts) <= 1": the strategy that produced ps failed
StrategyFailed(ps) == Len(ps) <= 1

\* the parts splitIntoChapters settles on
PartsOf(content) ==
    With(PageBreakParts(content), LAMBDA p1 :
    With(IF StrategyFailed(p1) THEN splitByStarSeparator(content) ELSE p1, LAMBDA p2 :
         IF StrategyFailed(p2) THEN splitByChapterPatterns(content) ELSE p2))

\* splitIntoChapters
splitIntoChapters(content) == ChaptersOf(PartsOf(content))

-----------------------------------------------------------------------------
(* Navigation parser: a navigation document is built point by point, then   *)
(* flattened by GetTOC.                                                     *)

MaxNodes == 4
MaxPlayOrder == 2

DigitChars == <<"1","2","3","4","5","6","7","8","9">>

\* content reference given to the n-th navigation point created
SrcOf(n) == <<"c", DigitChars[n], ".", "x">>

NavLabels == { <<" ", "I", " ">> }

RECURSIVE PathsOf(_)
\* the paths (child positions from the root list) of all points below nps
PathsOf(nps) ==
    UNION {{<<k>>} \cup {<<k>> \o p : p \in PathsOf(nps[k].Children)} : k \in 1..Len(nps)}

RECURSIVE NodeAt(_, _)
NodeAt(nps, path) ==
    IF Len(path) = 1 THEN nps[path[1]]
    ELSE NodeAt(nps[path[1]].Children, Tail(path))

RECURSIVE InsertAt(_, _, _)
\* append a point to the child list of the point at path (<<>>: the root list)
InsertAt(nps, path, new) ==
    IF Len(path) = 0 THEN Append(nps, new)
    ELSE [nps EXCEPT ![path[1]].Children = InsertAt(@, Tail(path), new)]

NoRest ==
    /\ archive = <<>> /\ entries = <<>> /\ ranges = <<>>
    /\ chapters = <<>> /\ err = "" /\ text = <<>> /\ parts = <<>>
    /\ trace = <<>> /\ env = <<>>

InitNav ==
    /\ pc = "build"
    /\ ncx = [NavPoints |-> <<>>]
    /\ toc = <<>>
    /\ NoRest

\* the decoder adds one navPoint under the root list or under a point
AddNavPoint ==
    /\ pc = "build"
    /\ Cardinality(PathsOf(ncx.NavPoints)) < MaxNodes
    /\ \E parent \in PathsOf(ncx.NavPoints) \cup {<<>>},
          order \in 1..MaxPlayOrder, label \in NavLabels :
          ncx' = [NavPoints |->
                    InsertAt(ncx.NavPoints, parent,
                             [PlayOrder |-> order, Text |-> label,
                              Src |-> SrcOf(Cardinality(PathsOf(ncx.NavPoints)) + 1),
                              Children |-> <<>>])]
    /\ UNCHANGED <<pc, toc, archive, entries, ranges, chapters, err, text,
                   parts, trace, env>>

CallGetTOC ==
    /\ pc = "build"
    /\ toc' = GetTOC(ncx)
    /\ pc' = "flattened"
    /\ UNCHANGED <<ncx, archive, entries, ranges, chapters, err, text,
                   parts, trace, env>>

NextNav == AddNavPoint \/ CallGetTOC

SpecNav == InitNav /\ [][NextNav]_vars

\* position in toc of the entry made from the point at path p
PosOf(p) == CHOOSE k \in 1..Len(toc) : toc[k].Href = NodeAt(ncx.NavPoints, p).Src

IsProperPrefix(p, q) == Len(p) < Len(q) /\ SubSeq(q, 1, Len(p)) = p

\* C4: GetTOC returns the entries in depth-first pre-order: one entry per
\* point, the descendants of every point contiguously and immediately after
\* it (hence before its next sibling), siblings in document order, and the
\* play-order value carried along without deciding any position.
C4_PreOrder ==
    pc = "flattened" =>
        LET P == PathsOf(ncx.NavPoints) IN
        /\ Len(toc) = Cardinality(P)
        /\ \A p \in P :
              /\ \E k \in 1..Len(toc) : toc[k].Href = NodeAt(ncx.NavPoints, p).Src
              /\ toc[PosOf(p)].Order = NodeAt(ncx.NavPoints, p).PlayOrder
              /\ LET D == {q \in P : IsProperPrefix(p, q)}
                 IN  {PosOf(q) : q \in D} = (PosOf(p) + 1)..(PosOf(p) + Cardinality(D))
        /\ \A p, q \in P :
              (/\ Len(p) = Len(q)
               /\ SubSeq(p, 1, Len(p) - 1) = SubSeq(q, 1, Len(q) - 1)
               /\ p[Len(p)] < q[Len(q)]) => PosOf(p) < PosOf(q)

\* a flattened tree with a point that has both a child and a next sibling,
\* and play-order values that run against the positions
C4_Witness ==
    /\ pc = "flattened"
    /\ \E p, q, r \in PathsOf(ncx.NavPoints) :
          /\ IsProperPrefix(p, q)
          /\ Len(r) = Len(p) /\ SubSeq(r, 1, Len(r) - 1) = SubSeq(p, 1, Len(p) - 1)
          /\ r[Len(r)] = p[Len(p)] + 1
    /\ \E k, l \in 1..Len(toc) : k < l /\ toc[k].Order > toc[l].Order

\* C5: Level of every flattened entry is 1 + the nesting depth of its point
C5_Level ==
    pc = "flattened" =>
        \A p \in PathsOf(ncx.NavPoints) : toc[PosOf(p)].Level = 1 + (Len(p) - 1)

\* a flattened tree with a point at nesting depth 2
C5_Witness ==
    /\ pc = "flattened"
    /\ \E p \in PathsOf(ncx.NavPoints) : Len(p) = 3 /\ toc[PosOf(p)].Level = 3

-----------------------------------------------------------------------------
(* Plain-text segmenter: splitIntoChapters on a converted text, one         *)
(* strategy per step.                                                       *)

MaxSections == 3

Rep(c, n) == [k \in 1..n |-> c]

RomanOf(n) == CASE n = 1 -> <<"I">> [] n = 2 -> <<"I","I">> [] n = 3 -> <<"I","I","I">>
                [] n = 4 -> <<"I","V">> [] OTHER -> <<"V">>

HeadKinds == 0..7

\* the heading line(s) of section n of a text of heading kind h
HeadOf(h, n) ==
    CASE h = 0 -> <<>>
      [] h = 1 -> ChapterWord \o <<" ">> \o Itoa(n) \o <<"\n">>
      [] h = 2 -> RomanOf(n) \o <<".", " ", "A", "a", "\n">>
      [] h = 3 -> Itoa(n) \o <<".", " ", "A", "a", "\n">>
      [] h = 4 -> RomanOf(n) \o <<".", "\n">>
      [] h = 5 -> Itoa(n) \o <<".", "\n">>
      [] h = 6 -> PartWord \o <<" ">> \o Itoa(n) \o <<"\n">>
      [] h = 7 -> RomanOf(n) \o <<"\n">>
                  \o <<"T","H","E"," ","L","O","N","G"," ","N","I","G","H","T","\n">>

BodyKinds == {"short", "mid", "long"}

BodyOf(b) ==
    CASE b = "short" -> <<"a", "b", "\n">>
      [] b = "mid"   -> Rep("x", MinHeadingPart + 1) \o <<"\n">>
      [] b = "long"  -> Rep("y", MinStarPart + 1) \o <<"\n">>

SepKinds == {"none", "ff", "star"}

SepOf(p) ==
    CASE p = "none" -> <<>>
      [] p = "ff"   -> <<"\f">>
      [] p = "star" -> <<"\n", "*", " ", "*", " ", "*", "\n">>

RECURSIVE MakeText(_, _, _, _)
\* sections n.. of a text: heading kind h, bodies bs, separator p before
\* every section but the first
MakeText(h, bs, p, n) ==
    IF n > Len(bs) THEN <<>>
    ELSE (IF n = 1 THEN <<>> ELSE SepOf(p))
         \o HeadOf(h, n) \o BodyOf(bs[n]) \o MakeText(h, bs, p, n + 1)

LeadKinds == {"none", "ff", "nl"}

LeadOf(l) ==
    CASE l = "none" -> <<>>
      [] l = "ff"   -> <<"\f">>
      [] l = "nl"   -> <<"\n">>

\* the texts ebook-convert may leave in book.txt: sections with one kind of
\* heading and one kind of separator, possibly after a leading page break
\* or an empty line
TextInputs ==
    {LeadOf(l) \o MakeText(h, bs, p, 1) :
        h \in HeadKinds,
        bs \in [1..MaxSections -> BodyKinds],
        p \in SepKinds,
        l \in LeadKinds}

NoNav ==
    /\ ncx = [NavPoints |-> <<>>] /\ toc = <<>> /\ archive = <<>>
    /\ entries = <<>> /\ ranges = <<>>

InitSeg ==
    /\ pc = "pagebreak"
    /\ text \in TextInputs
    /\ parts = <<>> /\ trace = <<>> /\ chapters = <<>> /\ err = "" /\ env = <<>>
    /\ NoNav

\* parts := strings.Split(content, "\f")
SplitPageBreak ==
    /\ pc = "pagebreak"
    /\ parts' = PageBreakParts(text)
    /\ trace' = Append(trace, [strategy |-> "pagebreak", count |-> Len(parts')])
    /\ pc' = IF StrategyFailed(parts') THEN "star" ELSE "emit"
    /\ UNCHANGED <<ncx, toc, archive, entries, ranges, chapters, err, text, env>>

\* parts = splitByStarSeparator(content)
SplitStar ==
    /\ pc = "star"
    /\ parts' = splitByStarSeparator(text)
    /\ trace' = Append(trace, [strategy |-> "star", count |-> Len(parts')])
    /\ pc' = IF StrategyFailed(parts') THEN "heading" ELSE "emit"
    /\ UNCHANGED <<ncx, toc, archive, entries, ranges, chapters, err, text, env>>

\* parts = splitByChapterPatterns(content)
SplitHeading ==
    /\ pc = "heading"
    /\ parts' = splitByChapterPatterns(text)
    /\ trace' = Append(trace, [strategy |-> "heading", count |-> Len(parts')])
    /\ pc' = "emit"
    /\ UNCHANGED <<ncx, toc, archive, entries, ranges, chapters, err, text, env>>

\* the loop over the parts
EmitChapters ==
    /\ pc = "emit"
    /\ chapters' = ChaptersOf(parts)
    /\ pc' = "done"
    /\ UNCHANGED <<ncx, toc, archive, entries, ranges, err, text, parts,
                   trace, env>>

NextSeg == SplitPageBreak \/ SplitStar \/ SplitHeading \/ EmitChapters

SpecSeg == InitSeg /\ [][NextSeg]_vars

StrategyOrder == <<"pagebreak", "star", "heading">>

\* C10: the segmenter starts its strategies in the order page-break, star
\* separator, heading pattern, each only after every earlier one yielded at
\* most one part; the parts of the first strategy that yields more than one
\* part are the ones turned into chapters; a text with a page-break
\* character is split by the page-break strategy alone.
C10_StrategyOrder ==
    /\ Len(trace) <= 3
    /\ \A k \in 1..Len(trace) :
          /\ trace[k].strategy = StrategyOrder[k]
          /\ k < Len(trace) => trace[k].count <= 1
    /\ pc \in {"emit", "done"} =>
          /\ Len(trace) >= 1
          /\ trace[Len(trace)].count = Len(parts)
          /\ Len(trace) < 3 => Len(parts) > 1
          /\ (\E k \in 1..Len(text) : text[k] = "\f") =>
                /\ Len(trace) = 1
                /\ Len(parts) = 1 + Cardinality({k \in 1..Len(text) : text[k] = "\f"})
    /\ pc = "done" =>
          \E kept \in {SortedSeq({j \in 1..Len(parts) : TrimSpace(parts[j]) # <<>>})} :
              /\ Len(chapters) = Len(kept)
              /\ \A m \in 1..Len(chapters) :
                    chapters[m].Content = TrimSpace(parts[kept[m]])

\* a text with a page break whose star-separated parts would be enough for
\* the star strategy, split by page breaks only
C10_Witness ==
    /\ pc = "done"
    /\ \E k \in 1..Len(text) : text[k] = "\f"
    /\ Len(splitByStarSeparator(text)) >= MinParts
    /\ Len(trace) = 1

\* a text the heading strategy splits after the two others failed
C10_WitnessHeading ==
    /\ pc = "done" /\ Len(trace) = 3 /\ Len(parts) >= MinParts

-----------------------------------------------------------------------------
(* Original-navigation extraction: extractChaptersFromOriginalNCX on an     *)
(* EPUB whose navigation document and content files are given.              *)

\* what extractChaptersFromOriginalNCX does on the EPUB [ncx, archive]
CallOriginal ==
    /\ pc = "start"
    /\ \E r \in { extractChaptersFromOriginalNCX(
                      [hasNCX |-> TRUE, ncx |-> ncx, files |-> archive]) } :
           /\ toc' = GetTOC(ncx)
           /\ entries' = r.entries
           /\ ranges' = r.ranges
           /\ chapters' = r.chapters
           /\ err' = r.err
    /\ pc' = "done"
    /\ UNCHANGED <<ncx, archive, text, parts, trace, env>>

NextOrig == CallOriginal

\* a flat navigation document of the given labels, hrefs and play orders
FlatNCX(labels, hrefs, orders) ==
    [NavPoints |-> [k \in 1..Len(labels) |->
                       [PlayOrder |-> orders[k], Text |-> labels[k],
                        Src |-> hrefs[k], Children |-> <<>>]]]

(* Content locator: two consecutive chapter entries over one content file   *)
(* made of anchors and text.                                                *)

MaxChunks == 3

HtmlChunks ==
    { <<"i","d","=","\"","a","\"">>,
      <<"n","a","m","e","=","'","a","'">>,
      <<"i","d","=","\"","b","\"">>,
      <<"n","a","m","e","=","\"","b","\"">>,
      <<"<","p",">","t","<","/","p",">">> }

RECURSIVE Concat(_)
Concat(ss) == IF Len(ss) = 0 THEN <<>> ELSE Head(ss) \o Concat(Tail(ss))

FileC == <<"c",".","x">>
FileD == <<"d",".","x">>
DirO  == <<"O","/">>

FirstHrefs ==
    { FileC, FileC \o <<"#","a">>, FileC \o <<"#","z">>, DirO \o FileC \o <<"#","a">> }

SecondHrefs ==
    { FileC, FileC \o <<"#","a">>, FileC \o <<"#","b">>, FileC \o <<"#","z">>,
      DirO \o FileC \o <<"#","b">>, FileD \o <<"#","b">>, <<"#","b">> }

ChapterOne == <<"C","h","a","p","t","e","r"," ","1">>
ChapterTwo == <<"C","h","a","p","t","e","r"," ","2">>

InitLoc ==
    /\ pc = "start"
    /\ \E h1 \in FirstHrefs, h2 \in SecondHrefs :
          ncx = FlatNCX(<<ChapterOne, ChapterTwo>>, <<h1, h2>>, <<1, 2>>)
    /\ \E cs \in [1..MaxChunks -> HtmlChunks] :
          archive = << [Name |-> DirO \o FileC, Data |-> Concat(cs)],
                       [Name |-> DirO \o FileD, Data |-> <<"t">>] >>
    /\ toc = <<>> /\ entries = <<>> /\ ranges = <<>>
    /\ chapters = <<>> /\ err = "" /\ text = <<>> /\ parts = <<>>
    /\ trace = <<>> /\ env = <<>>

SpecLoc == InitLoc /\ [][NextOrig]_vars

\* offsets at which an element with id or name f is written in html
FormOffsets(html, f) ==
    UNION {Occurrences(html, FragmentPatterns(f)[k]) : k \in 1..4}

\* the fragment of an href, <<>> if it has none
FragmentOf(href) == LET hp == SplitN2(href, "#") IN IF Len(hp) > 1 THEN hp[2] ELSE <<>>

C8_Case(i) ==
    /\ ranges[i].err = "" /\ ranges[i + 1].err = ""
    /\ ranges[i].file = ranges[i + 1].file
    /\ FragmentOf(entries[i].Href) # <<>>
    /\ FragmentOf(entries[i + 1].Href) # <<>>
    /\ LET p1 == SplitN2(entries[i].Href, "#")[1]
           p2 == SplitN2(entries[i + 1].Href, "#")[1]
       IN  p2 = p1 \/ HasSuffix(p1, p2)
    /\ LET html == archive[ranges[i].file].Data
           s == StartIdx(html, FragmentOf(entries[i].Href))
           t == StartIdx(html, FragmentOf(entries[i + 1].Href))
       IN  s # -1 /\ t # -1 /\ s < t

C9_Case(i) ==
    /\ ranges[i].err = ""
    /\ ranges[i].startFragment # <<>>
    /\ ranges[i].endFragment # <<>>
    /\ LET html == archive[ranges[i].file].Data
       IN  /\ FormOffsets(html, ranges[i].startFragment) # {}
           /\ \E o \in FormOffsets(html, ranges[i].endFragment) :
                 o > StartIdx(html, ranges[i].startFragment)

\* C9: when both fragments are found, the slice starts at an offset where
\* the start fragment is written, ends at an offset where the end fragment
\* is written, and the start offset is strictly smaller than the end offset.
C9_SliceBounds ==
    pc = "done" =>
        \A i \in 1..Len(ranges) :
            C9_Case(i) =>
                LET html == archive[ranges[i].file].Data
                IN  /\ ranges[i].lo \in FormOffsets(html, ranges[i].startFragment)
                    /\ ranges[i].hi \in FormOffsets(html, ranges[i].endFragment)
                    /\ ranges[i].lo < ranges[i].hi

\* both fragments found, the end fragment also written before the start
C9_Witness ==
    /\ pc = "done"
    /\ \E i \in 1..Len(ranges) :
          /\ C9_Case(i)
          /\ \E o \in FormOffsets(archive[ranges[i].file].Data, ranges[i].endFragment) :
                o < ranges[i].lo

-----------------------------------------------------------------------------
(* End to end on the original navigation: a flat navigation document of     *)
(* NumAccepted chapter entries and NumRejected front-matter entries, every  *)
(* entry with a content file of its own.                                    *)

NumAccepted == 5
NumRejected == 3

\* n one-letter words
Words(n) == [k \in 1..(2 * n - 1) |-> IF k % 2 = 1 THEN "w" ELSE " "]

Paragraph(txt) == <<"<","p",">">> \o txt \o <<"<","/","p",">">>

ContentKinds == {"good", "short", "missing"}

\* labels of front matter
RejectedLabels ==
    << <<"C","o","p","y","r","i","g","h","t">>,
       <<"C","o","n","t","e","n","t","s">>,
       <<"P","r","e","f","a","c","e">>,
       <<"I","n","d","e","x">> >>

AcceptedLabel(a) == ChapterN(a)
RejectedLabel(r) == RejectedLabels[((r - 1) % Len(RejectedLabels)) + 1]

AcceptedFile(a) == <<"c">> \o Itoa(a) \o <<".","x">>
RejectedFile(r) == <<"f">> \o Itoa(r) \o <<".","x">>

PlayOrderings == {"ascending", "descending", "zero"}

\* the play order of the entry at position p of n
PlayOrderOf(o, p, n) ==
    CASE o = "ascending"  -> p
      [] o = "descending" -> n + 1 - p
      [] o = "zero"       -> 0

\* the navigation document whose entries at the positions rej are front
\* matter and whose other entries are chapters, in play ordering o
E2ENav(rej, o) ==
    LET n == NumAccepted + NumRejected
        r(p) == Cardinality({x \in rej : x <= p})
    IN  FlatNCX([p \in 1..n |-> IF p \in rej THEN RejectedLabel(r(p))
                                ELSE AcceptedLabel(p - r(p))],
                [p \in 1..n |-> IF p \in rej THEN RejectedFile(r(p))
                                ELSE AcceptedFile(p - r(p))],
                [p \in 1..n |-> PlayOrderOf(o, p, n)])

\* the content files: front matter is readable and long; chapter a has the
\* content of kind q[a]
E2EFiles(q) ==
    LET present == SortedSeq({a \in 1..NumAccepted : q[a] # "missing"})
    IN  [r \in 1..NumRejected |->
            [Name |-> RejectedFile(r), Data |-> Paragraph(Words(MinWords))]]
        \o [j \in 1..Len(present) |->
              [Name |-> AcceptedFile(present[j]),
               Data |-> IF q[present[j]] = "good" THEN Paragraph(Words(MinWords))
                        ELSE Paragraph(Words(MinWords - 1))]]

\* at most one chapter has content that is missing or too short
Qualities ==
    {q \in [1..NumAccepted -> ContentKinds] :
        Cardinality({a \in 1..NumAccepted : q[a] # "good"}) <= 1}

\* where the front matter stands: among the first entries and at the end
RejectedPositions ==
    {S \in SUBSET ((1..(NumRejected + 1)) \cup {NumAccepted + NumRejected}) :
        Cardinality(S) = NumRejected}

InitE2E ==
    /\ pc = "start"
    /\ \E rej \in RejectedPositions, o \in PlayOrderings, q \in Qualities :
          /\ env = [rejected |-> rej, orders |-> o, quality |-> q]
          /\ ncx = E2ENav(rej, o)
          /\ archive = E2EFiles(q)
    /\ toc = <<>> /\ entries = <<>> /\ ranges = <<>>
    /\ chapters = <<>> /\ err = "" /\ text = <<>> /\ parts = <<>>
    /\ trace = <<>>

SpecE2E == InitE2E /\ [][NextOrig]_vars

\* the original statement of C6: exactly NumAccepted chapters, indices
\* 0..NumAccepted-1
C6_ExactlyAccepted ==
    pc = "done" =>
        /\ Len(chapters) = NumAccepted
        /\ \A m \in 1..Len(chapters) : chapters[m].Index = m - 1

\* C6 (amended): the classifier keeps the NumAccepted chapter entries and
\* drops the front matter; the chapters returned are the kept entries whose
\* content can be read and has at least MinWords words, in entry order, with
\* indices 0, 1, 2, ... and the entry labels as titles, whatever the play
\* orders are: NumAccepted chapters when every kept entry has such content.
C6_GoodEntries ==
    pc = "done" =>
        \E good \in {SortedSeq({a \in 1..NumAccepted : env.quality[a] = "good"})} :
            /\ Len(entries) = NumAccepted
            /\ \A a \in 1..Len(entries) : entries[a].Title = AcceptedLabel(a)
            /\ Len(chapters) = Len(good)
            /\ \A m \in 1..Len(chapters) :
                  /\ chapters[m].Index = m - 1
                  /\ chapters[m].Title = AcceptedLabel(good[m])
                  /\ chapters[m].WordCount = MinWords
            /\ Len(good) = NumAccepted => err = ""

\* every chapter entry readable and long, front matter first and in between,
\* play orders descending
C6_Witness ==
    /\ pc = "done"
    /\ Len(chapters) = NumAccepted
    /\ env.orders = "descending"
    /\ 1 \in env.rejected /\ 3 \in env.rejected /\ 2 \notin env.rejected
    /\ \A a \in 1..NumAccepted : env.quality[a] = "good"

-----------------------------------------------------------------------------
(* Orchestrator: ExtractChaptersWithOptions on a book; what ebook-convert   *)
(* and the file system answer is drawn when they are called.                *)

MaxBookChapters == 3
MaxConvEntries == 2

\* mutant of OriginalAccepted: any error-free result is accepted
OriginalAcceptedAny(r) == r.err = ""

\* "if err == nil && len(chapters) >= 3" of extractChaptersWithNCX
OriginalAccepted(r) == r.err = "" /\ Len(r.chapters) >= MinOriginalChapters

\* "if err == nil && len(chapters) > 0" of ExtractChaptersWithOptions
NCXAccepted(r) == r.err = "" /\ Len(r.chapters) > 0

\* extractChaptersWithText; txt is what ebook-convert and os.ReadFile
\* answered: [convertOK, readOK, text]
extractChaptersWithText(txt) ==
    IF ~txt.convertOK
    THEN [chapters |-> <<>>, err |-> "ebook-convert to txt failed"]
    ELSE IF ~txt.readOK
    THEN [chapters |-> <<>>, err |-> "failed to read text output"]
    ELSE [chapters |-> splitIntoChapters(txt.text), err |-> ""]

\* an EPUB whose navigation lists n chapters, each readable and long
BookOf(n) ==
    [hasNCX |-> TRUE,
     ncx    |-> FlatNCX([a \in 1..n |-> AcceptedLabel(a)],
                        [a \in 1..n |-> AcceptedFile(a)],
                        [a \in 1..n |-> a]),
     files  |-> [a \in 1..n |-> [Name |-> AcceptedFile(a),
                                 Data |-> Paragraph(Words(MinWords))]]]

\* a book without a navigation document
NoNCXBook == [hasNCX |-> FALSE, ncx |-> [NavPoints |-> <<>>], files |-> <<>>]

Books == {NoNCXBook} \cup {BookOf(n) : n \in 0..MaxBookChapters}

ConvLabels == { <<" ">>, <<"I","n","t","r","o">> }

\* an entry of the converted navigation: its label, and whether its content
\* file is in the converted EPUB
ConvEntryKinds == [label : ConvLabels, present : BOOLEAN]

\* the converted EPUB with the navigation entries ks
ConvOf(ks) ==
    LET present == SortedSeq({j \in 1..Len(ks) : ks[j].present})
    IN  [ok |-> TRUE, hasNCX |-> TRUE,
         ncx |-> FlatNCX([j \in 1..Len(ks) |-> ks[j].label],
                         [j \in 1..Len(ks) |-> AcceptedFile(j)],
                         [j \in 1..Len(ks) |-> j]),
         files |-> [m \in 1..Len(present) |->
                       [Name |-> AcceptedFile(present[m]),
                        Data |-> Paragraph(<<"a", "b">>)]]]

\* what the conversion to EPUB may produce
ConvOutcomes ==
    { [ok |-> FALSE, hasNCX |-> FALSE, ncx |-> [NavPoints |-> <<>>], files |-> <<>>],
      [ok |-> TRUE, hasNCX |-> FALSE, ncx |-> [NavPoints |-> <<>>], files |-> <<>>] }
    \cup {ConvOf(ks) : ks \in UNION {[1..m -> ConvEntryKinds] : m \in 0..MaxConvEntries}}

\* the texts the conversion to plain text may produce
OrchTexts ==
    { <<>>, <<" ", "\n">> }
    \cup {LeadOf(l) \o MakeText(h, [k \in 1..2 |-> "short"], p, 1) :
             h \in HeadKinds, l \in {"none", "ff"}, p \in {"none", "ff"}}
    \cup {LeadOf("nl") \o MakeText(h, [k \in 1..3 |-> "mid"], "none", 1) :
             h \in HeadKinds}
    \cup {MakeText(0, [k \in 1..3 |-> "long"], "star", 1)}

\* what the conversion to plain text and the read of its output may answer
TxtOutcomes ==
    { [convertOK |-> FALSE, readOK |-> FALSE, text |-> <<>>],
      [convertOK |-> TRUE, readOK |-> FALSE, text |-> <<>>] }
    \cup {[convertOK |-> TRUE, readOK |-> TRUE, text |-> t] : t \in OrchTexts}

InitOrch ==
    /\ pc = "start"
    /\ \E c \in BOOLEAN, d \in BOOLEAN, e \in BOOLEAN, b \in Books :
          /\ ~e => b = NoNCXBook
          /\ env = [ebookConvert |-> c, mkdirOK |-> d, isEpub |-> e,
                    hasNCX |-> b.hasNCX, convertOK |-> TRUE, readOK |-> TRUE]
          /\ ncx = b.ncx
          /\ archive = b.files
    /\ toc = <<>> /\ entries = <<>> /\ ranges = <<>>
    /\ chapters = <<>> /\ err = "" /\ text = <<>> /\ parts = <<>>
    /\ trace = <<>>

\* ExtractChaptersWithOptions up to the call of extractChaptersWithNCX
Begin ==
    /\ pc = "start"
    /\ IF ~env.ebookConvert
       THEN err' = "ebook-convert not found" /\ pc' = "done"
       ELSE IF ~env.mkdirOK
       THEN err' = "failed to create temp dir" /\ pc' = "done"
       ELSE err' = err /\ pc' = "ncx"
    /\ UNCHANGED <<ncx, toc, archive, entries, ranges, chapters, text, parts,
                   trace, env>>

\* extractChaptersWithNCX on an .epub path: extractChaptersFromOriginalNCX
TryOriginal ==
    /\ pc = "ncx"
    /\ env.isEpub
    /\ \E r \in { extractChaptersFromOriginalNCX(
                      [hasNCX |-> env.hasNCX, ncx |-> ncx, files |-> archive]) } :
          /\ trace' = Append(trace, [strategy |-> "original", err |-> r.err,
                                     chapters |-> r.chapters])
          /\ entries' = r.entries
          /\ ranges' = r.ranges
          /\ IF OriginalAccepted(r)
             THEN chapters' = r.chapters /\ err' = "" /\ pc' = "done"
             ELSE chapters' = chapters /\ err' = err /\ pc' = "converted"
    /\ UNCHANGED <<ncx, toc, archive, text, parts, env>>

\* extractChaptersWithNCX past the original navigation:
\* extractChaptersWithCalibreNCX, and the test of its result
TryConverted ==
    /\ \/ pc = "converted"
       \/ pc = "ncx" /\ ~env.isEpub
    /\ \E conv \in ConvOutcomes :
       \E r \in { extractChaptersWithCalibreNCX(conv) } :
          /\ trace' = Append(trace, [strategy |-> "converted", err |-> r.err,
                                     chapters |-> r.chapters])
          /\ IF NCXAccepted(r)
             THEN chapters' = r.chapters /\ err' = "" /\ pc' = "done"
             ELSE chapters' = chapters /\ err' = err /\ pc' = "text"
    /\ UNCHANGED <<ncx, toc, archive, entries, ranges, text, parts, env>>

\* the fallback of ExtractChaptersWithOptions: extractChaptersWithText
TryText ==
    /\ pc = "text"
    /\ \E txt \in TxtOutcomes :
       \E r \in { extractChaptersWithText(txt) } :
          /\ trace' = Append(trace, [strategy |-> "text", err |-> r.err,
                                     chapters |-> r.chapters])
          /\ text' = txt.text
          /\ env' = [env EXCEPT !.convertOK = txt.convertOK, !.readOK = txt.readOK]
          /\ chapters' = r.chapters
          /\ err' = r.err
    /\ pc' = "done"
    /\ UNCHANGED <<ncx, toc, archive, entries, ranges, parts>>

NextOrch == Begin \/ TryOriginal \/ TryConverted \/ TryText

SpecOrch == InitOrch /\ [][NextOrch]_vars

\* the strategy started last
LastStrategy == IF Len(trace) = 0 THEN "" ELSE trace[Len(trace)].strategy

\* C1 as stated: in every chapter list returned, the chapter at position k
\* (0-based) has Index k
C1_DenseIndices ==
    pc = "done" => \A m \in 1..Len(chapters) : chapters[m].Index = m - 1

\* C2 as stated: once the fallback is run, a non-empty chapter list and no
\* error are returned
C2_FallbackAlwaysSucceeds ==
    (pc = "done" /\ LastStrategy = "text") => (err = "" /\ Len(chapters) > 0)

\* C2 (amended): the fallback returns an error and no chapters when the
\* conversion to plain text fails or its output cannot be read; otherwise
\* it returns no error, and at least one chapter exactly when the text has a
\* character that is not white space; a text that no strategy splits gives
\* one chapter holding the whole trimmed text.
C2_Fallback ==
    (pc = "done" /\ LastStrategy = "text") =>
        /\ ~env.convertOK => (err = "ebook-convert to txt failed" /\ chapters = <<>>)
        /\ (env.convertOK /\ ~env.readOK) =>
              (err = "failed to read text output" /\ chapters = <<>>)
        /\ (env.convertOK /\ env.readOK) =>
              /\ err = ""
              /\ (Len(chapters) > 0) <=> (TrimSpace(text) # <<>>)
              /\ (/\ TrimSpace(text) # <<>>
                  /\ ~Contains(text, <<"\f">>)
                  /\ Len(text) <= MinHeadingPart)
                 => (Len(chapters) = 1 /\ chapters[1].Content = TrimSpace(text))

\* the fallback ran on a text that no strategy splits
C2_Witness ==
    /\ pc = "done" /\ LastStrategy = "text" /\ Len(trace) = 3
    /\ err = "" /\ Len(chapters) = 1
    /\ ~Contains(text, <<"\f">>)
    /\ chapters[1].Content = TrimSpace(text)

StrategyRank(st) ==
    CASE st = "original" -> 1 [] st = "converted" -> 2 [] st = "text" -> 3

\* the result t of a strategy does not meet the confidence predicate
FailedPredicate(t) ==
    CASE t.strategy = "original"  -> t.err # "" \/ Len(t.chapters) < 3
      [] t.strategy = "converted" -> t.err # "" \/ Len(t.chapters) = 0
      [] t.strategy = "text"      -> FALSE

\* C3: strategies are started in the order original navigation (for an EPUB
\* file), converted navigation, plain text, each one only after the one
\* before it failed its confidence predicate; what is returned is the result
\* of the strategy started last, which is the first one that met its
\* predicate or else the plain-text segmentation; so no conversion is run
\* once the original navigation gave at least 3 chapters.
C3_StrategyOrder ==
    /\ Len(trace) <= 3
    /\ Len(trace) > 0 =>
          trace[1].strategy = IF env.isEpub THEN "original" ELSE "converted"
    /\ \A k \in 1..(Len(trace) - 1) :
          /\ StrategyRank(trace[k + 1].strategy) = StrategyRank(trace[k].strategy) + 1
          /\ FailedPredicate(trace[k])
    /\ (pc = "done" /\ Len(trace) > 0) =>
          /\ chapters = trace[Len(trace)].chapters
          /\ err = trace[Len(trace)].err
          /\ LastStrategy # "text" => ~FailedPredicate(trace[Len(trace)])
    /\ (pc \in {"converted", "text"}) => FailedPredicate(trace[Len(trace)])

\* the original navigation gave two chapters, the converted one none, and the
\* plain-text segmentation gave the result
C3_Witness ==
    /\ pc = "done" /\ Len(trace) = 3
    /\ trace[1].err = "" /\ Len(trace[1].chapters) = 2
    /\ Len(chapters) > 0

\* C7: every chapter of every extraction path has a non-empty title.
C7_TitleNeverEmpty ==
    /\ \A m \in 1..Len(chapters) : chapters[m].Title # <<>>
    /\ \A k \in 1..Len(trace) :
          \A m \in 1..Len(trace[k].chapters) : trace[k].chapters[m].Title # <<>>

\* a chapter of the plain-text path whose first line is too short to be a
\* title and that carries the positional title
C7_Witness ==
    /\ pc = "done" /\ LastStrategy = "text"
    /\ \E m \in 1..Len(chapters) :
          /\ chapters[m].Content = <<"a", "b">>
          /\ chapters[m].Title = ChapterN(chapters[m].Index + 1)

-----------------------------------------------------------------------------
(* Star-separator split: splitByStarSeparator on a text of padded parts     *)
(* between separator lines.                                                 *)

MaxSeparators == 2

\* the ways a separator line is written
StarLines ==
    { <<"\n", "*", "*", "*", "\n">>,
      <<"\n", " ", "*", " ", "*", "\t", "*", " ", "\n">> }

\* a part whose trimmed length is n, padded with white space
PaddedPart(n) == <<" ">> \o Rep("y", n) \o <<"\t">>

RECURSIVE StarText(_, _, _)
\* the parts of trimmed lengths lens from part j on, sep between them
StarText(lens, sep, j) ==
    IF j > Len(lens) THEN <<>>
    ELSE (IF j = 1 THEN <<>> ELSE sep) \o PaddedPart(lens[j]) \o StarText(lens, sep, j + 1)

PartLengths == {MinStarPart - 1, MinStarPart, MinStarPart + 1}

InitStar ==
    /\ pc = "start"
    /\ \E k \in 0..MaxSeparators, sep \in StarLines :
       \E lens \in [1..(k + 1) -> PartLengths] :
          /\ env = [seps |-> k, lens |-> lens]
          /\ text = StarText(lens, sep, 1)
    /\ parts = <<>> /\ trace = <<>> /\ chapters = <<>> /\ err = ""
    /\ NoNav

CallStar ==
    /\ pc = "start"
    /\ parts' = splitByStarSeparator(text)
    /\ pc' = "done"
    /\ UNCHANGED <<ncx, toc, archive, entries, ranges, chapters, err, text,
                   trace, env>>

SpecStar == InitStar /\ [][CallStar]_vars

\* the original statement of C11: with exactly 2 separator lines and every
\* part of at least MinStarPart characters after trimming, the whole text is
\* returned as one part
C11_TwoSeparatorsFallback ==
    (/\ pc = "done"
     /\ env.seps = 2
     /\ \A j \in 1..Len(env.lens) : env.lens[j] >= MinStarPart)
    => parts = <<text>>

\* C11 (amended): the parts returned are the trimmed parts longer than
\* MinStarPart characters, in text order, when there are at least MinParts
\* of them, and the whole text as one part otherwise; so 2 separator lines
\* between 3 parts longer than MinStarPart give those 3 parts, and fewer
\* than 2 separator lines always give the whole text.
C11_StarSplit ==
    pc = "done" =>
        \E long \in {SortedSeq({j \in 1..Len(env.lens) : env.lens[j] > MinStarPart})} :
            /\ Len(long) >= MinParts =>
                  parts = [m \in 1..Len(long) |-> Rep("y", env.lens[long[m]])]
            /\ Len(long) < MinParts => parts = <<text>>
            /\ env.seps < MinParts - 1 => parts = <<text>>

\* 2 separator lines between 3 parts longer than MinStarPart: 3 parts
C11_Witness ==
    /\ pc = "done"
    /\ env.seps = 2
    /\ \A j \in 1..Len(env.lens) : env.lens[j] = MinStarPart + 1
    /\ Len(parts) = 3

-----------------------------------------------------------------------------
(* Heading-pattern split: splitIntoChapters on a text of three sections     *)
(* headed "Chapter 1", "Chapter 2", "Chapter 3", after nothing, an empty    *)
(* line or a preface.                                                       *)

InitHead ==
    /\ pc = "pagebreak"
    /\ \E lead \in {"none", "nl", "preface"}, bs \in [1..3 -> BodyKinds] :
          /\ env = [lead |-> lead, bodies |-> bs]
          /\ text = (CASE lead = "none"    -> <<>>
                       [] lead = "nl"      -> <<"\n">>
                       [] lead = "preface" -> Rep("z", MinHeadingPart + 1) \o <<"\n">>)
                    \o MakeText(1, bs, "none", 1)
    /\ parts = <<>> /\ trace = <<>> /\ chapters = <<>> /\ err = ""
    /\ NoNav

SpecHead == InitHead /\ [][NextSeg]_vars

\* C12 as stated: three headings over paragraphs of more than MinHeadingPart
\* characters give 3 chapters with indices 0, 1, 2, chapter m beginning with
\* heading m, wherever the first heading stands
C12_ThreeHeadings ==
    (pc = "done" /\ \A j \in 1..3 : env.bodies[j] # "short") =>
        /\ Len(chapters) = 3
        /\ \A m \in 1..Len(chapters) :
              /\ chapters[m].Index = m - 1
              /\ HasPrefix(chapters[m].Content, ChapterN(m))

-----------------------------------------------------------------------------
(* Entry classifier: filterChapterEntries on a flattened table of contents. *)

MaxEntries == 2

\* one character per element
Chars(str) ==
    CASE str = "copyright" -> <<"C","o","p","y","r","i","g","h","t"," ","N","o","t","i","c","e">>
      [] str = "beginning" -> <<"C","h","a","p","t","e","r"," ","O","n","e",":"," ",
                                "T","h","e"," ","B","e","g","i","n","n","i","n","g">>
      [] str = "notes"     -> <<"C","h","a","p","t","e","r"," ","N","o","t","e","s">>
      [] str = "preface"   -> <<"P","r","e","f","a","c","e">>
      [] str = "x"         -> <<"X">>
      [] str = "night"     -> <<"I","V","."," ","T","h","e"," ","N","i","g","h","t">>
      [] str = "candide"   -> <<"H","o","w"," ","C","a","n","d","i","d","e"," ","W","a","s"," ",
                                "B","r","o","u","g","h","t"," ","U","p">>
      [] str = "two"       -> <<"P","A","R","T"," ","T","w","o">>
      [] str = "oneword"   -> <<"I","n","t","r","o","d","u","c","t","i","o","n","-","t","o","-",
                                "t","h","e","-","b","o","o","k">>
      [] str = "rules"     -> <<"1","2"," ","R","u","l","e","s">>
      [] str = "index"     -> <<"I","N","D","E","X">>

\* the entries the table of contents is made of, each with the verdict the
\* rules of the classifier give it
EntryKinds ==
    { [title |-> "copyright", level |-> 1, keep |-> FALSE],
      [title |-> "copyright", level |-> 2, keep |-> FALSE],
      [title |-> "beginning", level |-> 1, keep |-> TRUE],
      [title |-> "notes",     level |-> 1, keep |-> FALSE],
      [title |-> "notes",     level |-> 2, keep |-> FALSE],
      [title |-> "preface",   level |-> 1, keep |-> FALSE],
      [title |-> "preface",   level |-> 2, keep |-> TRUE],
      [title |-> "x",         level |-> 2, keep |-> FALSE],
      [title |-> "night",     level |-> 1, keep |-> TRUE],
      [title |-> "candide",   level |-> 1, keep |-> TRUE],
      [title |-> "two",       level |-> 1, keep |-> TRUE],
      [title |-> "oneword",   level |-> 1, keep |-> FALSE],
      [title |-> "rules",     level |-> 1, keep |-> TRUE],
      [title |-> "index",     level |-> 3, keep |-> FALSE] }

InitFilter ==
    /\ pc = "start"
    /\ \E n \in 0..MaxEntries :
       \E ks \in [1..n -> EntryKinds] :
          /\ env = ks
          /\ toc = [k \in 1..n |-> [Title |-> Chars(ks[k].title), Level |-> ks[k].level,
                                    Href |-> SrcOf(k), Order |-> n - k]]
    /\ ncx = [NavPoints |-> <<>>] /\ archive = <<>> /\ entries = <<>>
    /\ ranges = <<>> /\ chapters = <<>> /\ err = "" /\ text = <<>>
    /\ parts = <<>> /\ trace = <<>>

CallFilter ==
    /\ pc = "start"
    /\ entries' = filterChapterEntries(toc)
    /\ pc' = "done"
    /\ UNCHANGED <<ncx, toc, archive, ranges, chapters, err, text, parts,
                   trace, env>>

SpecFilter == InitFilter /\ [][CallFilter]_vars

\* the rules as the claim words them
ClaimKeeps(e) ==
    LET lower == ToLower(e.Title) IN
    /\ \A k \in 1..Len(skipPatterns) : Occurrences(lower, skipPatterns[k]) = {}
    /\ Len(e.Title) >= 2
    /\ \/ Occurrences(lower, ToLower(ChapterWord)) # {}
       \/ Occurrences(lower, ToLower(PartWord)) # {}
       \/ LeadNumeralMatch(e.Title)
       \/ e.Level >= 2
       \/ Len(e.Title) > 20 /\ \E k \in 1..Len(e.Title) : e.Title[k] = " "

-----------------------------------------------------------------------------
(* Title inferencer: detectChapterTitle on the text of a part and a         *)
(* positional number.                                                       *)

MaxDefaultNum == 2

\* line 1 of the text, by kind
TitleLine(k) ==
    CASE k = "roman" -> <<"I","V">>
      [] k = "romandot" -> <<"I","V",".">>
      [] k = "digit" -> <<"3">>
      [] k = "digitdot" -> <<"3",".">>
      [] k = "romantitle" -> <<"I","V","."," ","T","H","E"," ","L","O","N","G"," ","N","I","G","H","T">>
      [] k = "romanshort" -> <<"X","."," ","D","a","w","n">>
      [] k = "digittitle" -> <<"3","."," ","T","h","e"," ","N","i","g","h","t">>
      [] k = "chapter" -> <<"C","h","a","p","t","e","r"," ","7">>
      [] k = "chaptercaps" -> <<"C","H","A","P","T","E","R"," ","I","V",":"," ","T","H","E"," ","L","O","N","G"," ","N","I","G","H","T">>
      [] k = "caps" -> <<"A"," ","S","H","O","R","T"," ","L","I","N","E">>
      [] k = "len2" -> <<"a","b">>
      [] k = "len3" -> <<"a","b","c">>
      [] k = "len4" -> <<"a","b","c","d">>
      [] k = "chapter79" -> <<"C","h","a","p","t","e","r"," ","7">> \o Rep("x", 70)
      [] k = "chapter80" -> <<"C","h","a","p","t","e","r"," ","7">> \o Rep("x", 71)
      [] k = "len59" -> Rep("x", 59)
      [] k = "len60" -> Rep("x", 60)

\* line 2 of the text, by kind
SecondLine(k) ==
    CASE k = "night"  -> <<"T","H","E"," ","L","O","N","G"," ","N","I","G","H","T">>
      [] k = "len5"   -> <<"a","b","c","d","e">>
      [] k = "len6"   -> <<"a","b","c","d","e","f">>
      [] k = "len99"  -> Rep("q", 99)
      [] k = "len100" -> Rep("q", 100)

FirstLineKinds ==
    {"blank", "roman", "romandot", "digit", "digitdot",
     "romantitle", "romanshort", "digittitle", "chapter", "chaptercaps",
     "caps", "len2", "len3", "len4", "chapter79", "chapter80", "len59", "len60"}

SecondLineKinds == {"none", "night", "len5", "len6", "len99", "len100"}

\* the text of lines l1 and l2, bare or among white space and empty lines
TitleText(l1, l2, padded) ==
    LET a == IF l1 = "blank" THEN <<>> ELSE TitleLine(l1)
        b == IF l2 = "none" THEN <<>> ELSE SecondLine(l2)
    IN  IF padded
        THEN <<"\n", " ", "\t">> \o a \o <<" ", "\r", "\n", "\n", " ", " ">> \o b \o <<"\n">>
        ELSE IF l2 = "none" THEN a ELSE a \o <<"\n">> \o b

InitTitle ==
    /\ pc = "start"
    /\ \E l1 \in FirstLineKinds, l2 \in SecondLineKinds, padded \in BOOLEAN,
          n \in 1..MaxDefaultNum :
          /\ l1 = "blank" => l2 = "none"
          /\ env = [l1 |-> l1, l2 |-> l2, n |-> n, title |-> <<>>]
          /\ text = TitleText(l1, l2, padded)
    /\ parts = <<>> /\ trace = <<>> /\ chapters = <<>> /\ err = ""
    /\ NoNav

\* title := detectChapterTitle(part, i+1)
CallDetect ==
    /\ pc = "start"
    /\ env' = [env EXCEPT !.title = detectChapterTitle(text, env.n)]
    /\ pc' = "done"
    /\ UNCHANGED <<ncx, toc, archive, entries, ranges, chapters, err, text,
                   parts, trace>>

SpecTitle == InitTitle /\ [][CallDetect]_vars

\* the title the rule list gives for lines l1, l2 and fallback number n;
\* dotted is the title of the line "3. The Night"
RuleListTitle(l1, l2, n, dotted) ==
    CASE l1 = "blank" -> <<"C","h","a","p","t","e","r"," ">> \o <<DigitChars[n]>>
      [] l1 = "romandot" -> <<"C","h","a","p","t","e","r"," ","I","V">>
      [] l1 = "digit" -> <<"C","h","a","p","t","e","r"," ","3">>
      [] l1 = "digitdot" -> <<"C","h","a","p","t","e","r"," ","3">>
      [] l1 = "romantitle" -> <<"C","h","a","p","t","e","r"," ","I","V",":"," ","T","h","e"," ","L","o","n","g"," ","N","i","g","h","t">>
      [] l1 = "romanshort" -> <<"C","h","a","p","t","e","r"," ","X",":"," ","D","a","w","n">>
      [] l1 = "digittitle" -> dotted
      [] l1 = "chapter" -> <<"C","h","a","p","t","e","r"," ","7">>
      [] l1 = "chaptercaps" -> <<"C","H","A","P","T","E","R"," ","I","V",":"," ","T","H","E"," ","L","O","N","G"," ","N","I","G","H","T">>
      [] l1 = "caps" -> <<"A"," ","S","h","o","r","t"," ","L","i","n","e">>
      [] l1 = "len2" -> <<"C","h","a","p","t","e","r"," ">> \o <<DigitChars[n]>>
      [] l1 = "len3" -> <<"C","h","a","p","t","e","r"," ">> \o <<DigitChars[n]>>
      [] l1 = "len4" -> <<"a","b","c","d">>
      [] l1 = "chapter79" -> <<"C","h","a","p","t","e","r"," ","7">> \o Rep("x", 70)
      [] l1 = "chapter80" -> <<"C","h","a","p","t","e","r"," ">> \o <<DigitChars[n]>>
      [] l1 = "len59" -> Rep("x", 59)
      [] l1 = "len60" -> <<"C","h","a","p","t","e","r"," ">> \o <<DigitChars[n]>>
      [] l1 = "roman" ->
            CASE l2 = "none" -> <<"C","h","a","p","t","e","r"," ","I","V">>
              [] l2 = "night" -> <<"C","h","a","p","t","e","r"," ","I","V",":"," ","T","h","e"," ","L","o","n","g"," ","N","i","g","h","t">>
              [] l2 = "len5" -> <<"C","h","a","p","t","e","r"," ","I","V">>
              [] l2 = "len6" -> <<"C","h","a","p","t","e","r"," ","I","V",":"," ","a","b","c","d","e","f">>
              [] l2 = "len99" -> <<"C","h","a","p","t","e","r"," ","I","V",":"," ">> \o Rep("q", 99)
              [] l2 = "len100" -> <<"C","h","a","p","t","e","r"," ","I","V">>

\* the original statement of C14, in which "<numeral>. <rest>" is a line
\* that starts with a Roman numeral or a number: "3. The Night" gives
\* "Chapter 3: The Night"
C14_RuleList ==
    pc = "done" =>
        env.title = RuleListTitle(env.l1, env.l2, env.n, <<"C","h","a","p","t","e","r"," ","3",":"," ","T","h","e"," ","N","i","g","h","t">>)

\* C14 (amended): the title is the result of the first rule that applies,
\* where the rule "<numeral>. <rest>" is for a Roman numeral only: a line
\* "3. The Night" is returned by the length rule, unchanged.
C14_TitleRules ==
    pc = "done" =>
        env.title = RuleListTitle(env.l1, env.l2, env.n, <<"3","."," ","T","h","e"," ","N","i","g","h","t">>)

\* "IV" over "THE LONG NIGHT", among white space and empty lines
C14_Witness ==
    /\ pc = "done"
    /\ env.l1 = "roman" /\ env.l2 = "night"
    /\ Len(text) > Len(TitleLine("roman")) + Len(SecondLine("night")) + 1
    /\ env.title = <<"C","h","a","p","t","e","r"," ","I","V",":"," ","T","h","e"," ","L","o","n","g"," ","N","i","g","h","t">>

\* "3." with no second line
C14_WitnessDigit ==
    /\ pc = "done"
    /\ env.l1 = "digitdot" /\ env.l2 = "none"
    /\ env.title = <<"C","h","a","p","t","e","r"," ","3">>

-----------------------------------------------------------------------------
(* Partial results: ExtractChaptersWithOptions on an EPUB whose navigation  *)
(* lists chapters some of which have no content file in the archive.        *)

MaxPartialEntries == 4

InitPartial ==
    /\ pc = "start"
    /\ \E n \in 1..MaxPartialEntries :
       \E missing \in SUBSET (1..n) :
       \E present \in {SortedSeq((1..n) \ missing)} :
          /\ env = [ebookConvert |-> TRUE, mkdirOK |-> TRUE, isEpub |-> TRUE,
                    hasNCX |-> TRUE, convertOK |-> TRUE, readOK |-> TRUE,
                    missing |-> missing]
          /\ ncx = BookOf(n).ncx
          /\ archive = [m \in 1..Len(present) |-> BookOf(n).files[present[m]]]
    /\ toc = <<>> /\ entries = <<>> /\ ranges = <<>>
    /\ chapters = <<>> /\ err = "" /\ text = <<>> /\ parts = <<>>
    /\ trace = <<>>

SpecPartial == InitPartial /\ [][NextOrch]_vars

\* the results of the navigation-based strategies that hold one or more
\* chapters and no error
PartialResults ==
    {k \in 1..Len(trace) : /\ trace[k].strategy \in {"original", "converted"}
                           /\ trace[k].err = ""
                           /\ Len(trace[k].chapters) >= 1}

\* the original statement of C15: a navigation-based result of one or more
\* chapters is what the orchestrator returns
C15_PartialReturned ==
    (pc = "done" /\ PartialResults # {}) =>
        (chapters = trace[Min(PartialResults)].chapters /\ err = "")

\* C15 (amended): an entry whose content cannot be extracted is skipped and
\* the entries after it are still extracted: the original-navigation result
\* holds one chapter per entry with a content file, in entry order.  That
\* partial result is returned when it holds at least MinOriginalChapters
\* chapters; with fewer it is discarded and the converted navigation is
\* tried, whose result is returned when it holds at least one chapter.
C15_Partial ==
    /\ Len(trace) >= 1 =>
          \E present \in {SortedSeq({a \in 1..Len(ncx.NavPoints) : a \notin env.missing})} :
              /\ Len(trace[1].chapters) = Len(present)
              /\ \A m \in 1..Len(present) :
                    /\ trace[1].chapters[m].Title = AcceptedLabel(present[m])
                    /\ trace[1].chapters[m].Index = m - 1
              /\ (trace[1].err = "") <=> (Len(present) >= 1)
    /\ pc = "done" =>
          /\ Len(trace[1].chapters) >= MinOriginalChapters
                => (Len(trace) = 1 /\ chapters = trace[1].chapters /\ err = "")
          /\ Len(trace[1].chapters) < MinOriginalChapters => Len(trace) >= 2
          /\ (Len(trace) >= 2 /\ 2 \in PartialResults)
                => (Len(trace) = 2 /\ chapters = trace[2].chapters /\ err = "")

\* the content file of the second of four entries is missing: the three
\* others are returned
C15_Witness ==
    /\ pc = "done"
    /\ env.missing = {2}
    /\ Len(ncx.NavPoints) = 4
    /\ Len(chapters) = 3
    /\ chapters[2].Title = AcceptedLabel(3)
    /\ Len(trace) = 1

-----------------------------------------------------------------------------
(* Markup-to-text projector: htmlToText on a short text.                    *)

MaxTextLen == 3

ProjectorChars == {"a", " ", "\t", "\n", "<", ">"}

InitProject ==
    /\ pc = "start"
    /\ \E n \in 0..MaxTextLen : text \in [1..n -> ProjectorChars]
    /\ env = [out |-> <<>>]
    /\ parts = <<>> /\ trace = <<>> /\ chapters = <<>> /\ err = ""
    /\ NoNav

\* return htmlToText(html), nil
CallProject ==
    /\ pc = "start"
    /\ env' = [out |-> htmlToText(text)]
    /\ pc' = "done"
    /\ UNCHANGED <<ncx, toc, archive, entries, ranges, chapters, err, text,
                   parts, trace>>

SpecProject == InitProject /\ [][CallProject]_vars

\* txt has no tag: no "<" with a ">" after it
NoTags(txt) ==
    ~\E k, l \in 1..Len(txt) : k < l /\ txt[k] = "<" /\ txt[l] = ">"

\* the characters of txt that are not white space, in order
Visible(txt) == SelectSeq(txt, LAMBDA c : ~IsSpace(c))

\* C16 as stated: on a text without tags the projection is the text with its
\* lines trimmed, its empty lines dropped and the other lines joined by an
\* empty line; no character that is not white space is lost; projecting the
\* result again changes nothing
C16_PlainTextKept ==
    (pc = "done" /\ NoTags(text)) =>
        /\ env.out = Join(SelectSeq([j \in 1..Len(Split(text, "\n")) |->
                                        TrimSpace(Split(text, "\n")[j])],
                                    LAMBDA l : l # <<>>),
                          <<"\n", "\n">>)
        /\ Visible(env.out) = Visible(text)
        /\ htmlToText(env.out) = env.out

-----------------------------------------------------------------------------
(* Word count: the loop of countWords, one rune per step.                   *)

MaxWordChars == 3

WordChars == {"a", " ", "\t", "\n", "\r", "\f"}

InitWords ==
    /\ pc = "start"
    /\ \/ \E n \in 0..MaxWordChars : text \in [1..n -> WordChars]
       \/ text = <<" ", " ", "a", " ", " ", "b", "b", "\n", "\n", "c", "c", "c", " ">>
    /\ env = [i |-> 0, count |-> 0, inWord |-> FALSE]
    /\ parts = <<>> /\ trace = <<>> /\ chapters = <<>> /\ err = ""
    /\ NoNav

\* countWords up to the loop: the empty text returns 0 at once
WordsStart ==
    /\ pc = "start"
    /\ pc' = IF text = <<>> THEN "done" ELSE "scan"
    /\ UNCHANGED <<ncx, toc, archive, entries, ranges, chapters, err, text,
                   parts, trace, env>>

\* one iteration of "for _, r := range text"
WordsStep ==
    /\ pc = "scan"
    /\ env.i < Len(text)
    /\ env' = [countWordsStep(env, text[env.i + 1]) EXCEPT !.i = env.i + 1]
    /\ UNCHANGED <<pc, ncx, toc, archive, entries, ranges, chapters, err, text,
                   parts, trace>>

\* return count
WordsReturn ==
    /\ pc = "scan"
    /\ env.i = Len(text)
    /\ pc' = "done"
    /\ UNCHANGED <<ncx, toc, archive, entries, ranges, chapters, err, text,
                   parts, trace, env>>

NextWords == WordsStart \/ WordsStep \/ WordsReturn

SpecWords == InitWords /\ [][NextWords]_vars

\* the maximal runs of characters of txt outside ws, as pairs <<first, last>>
Runs(txt, ws) ==
    {r \in (1..Len(txt)) \X (1..Len(txt)) :
        /\ r[1] <= r[2]
        /\ \A k \in r[1]..r[2] : txt[k] \notin ws
        /\ r[1] = 1 \/ txt[r[1] - 1] \in ws
        /\ r[2] = Len(txt) \/ txt[r[2] + 1] \in ws}

\* C17: the count returned is the number of maximal runs of characters
\* other than space, tab, newline and carriage return (a form feed is part
\* of a word); it is what NewChapter stores as WordCount; the empty text has
\* 0 words and "  a  bb\n\nccc " has 3.
C17_WordCount ==
    pc = "done" =>
        /\ env.count = Cardinality(Runs(text, {" ", "\t", "\n", "\r"}))
        /\ NewChapter(0, <<"t">>, text).WordCount = env.count
        /\ text = <<>> => env.count = 0
        /\ text = <<" ", " ", "a", " ", " ", "b", "b", "\n", "\n", "c", "c", "c", " ">>
              => env.count = 3

\* a text with leading, repeated and trailing white space counted
C17_Witness ==
    /\ pc = "done"
    /\ text = <<" ", " ", "a", " ", " ", "b", "b", "\n", "\n", "c", "c", "c", " ">>
    /\ env.count = 3

\* a form feed between two letters does not separate words
C17_WitnessFormFeed ==
    /\ pc = "done"
    /\ text = <<"a", "\f", "a">>
    /\ env.count = 1

-----------------------------------------------------------------------------
(* Fragment boundaries of the content locator, on the EPUBs of SpecLoc.     *)

\* C18 as stated: the slice starts at the smallest offset at which any of
\* the four forms of the start fragment is written and ends at the smallest
\* such offset of the end fragment after the start (the end of the file if
\* there is none); when no form of the start fragment is written the whole
\* file is the slice
C18_FirstOccurrence ==
    pc = "done" =>
        \A i \in 1..Len(ranges) :
            (ranges[i].err = "" /\ ranges[i].startFragment # <<>>) =>
                LET html   == archive[ranges[i].file].Data
                    starts == FormOffsets(html, ranges[i].startFragment)
                    ends   == {o \in FormOffsets(html, ranges[i].endFragment) :
                                  o > ranges[i].lo}
                IN  IF starts = {}
                    THEN ranges[i].lo = 0 /\ ranges[i].hi = Len(html)
                    ELSE /\ ranges[i].lo = Min(starts)
                         /\ ranges[i].hi =
                               IF ranges[i].endFragment = <<>> \/ ends = {}
                               THEN Len(html) ELSE Min(ends)

-----------------------------------------------------------------------------
(* The archive lookup of GetChapterContentRange: one call on an archive     *)
(* listing of distinct names in every order.                                *)

MaxFiles == 3

DirP == <<"P","/">>
FileE == <<"e",".","x">>

\* names of archive entries; three of them end with c.x
FindNames == { FileC, DirO \o FileC, DirP \o FileC, FileD }

\* reference paths: exact and suffix matches, one that filepath.Clean
\* rewrites, one that matches no entry, one that only ends entry names
FindHrefs == { FileC, DirO \o FileC, <<".","/">> \o FileC, FileD, FileE, <<"x">> }

\* the entry named n; its text names it
FindEntry(n) == [Name |-> n, Data |-> <<"<","p",">">> \o n \o <<"<","/","p",">">>]

\* the archive listings: distinct names, every order
FindListings ==
    UNION { { [k \in 1..n |-> FindEntry(ns[k])] :
                ns \in {s \in [1..n -> FindNames] :
                           \A a, b \in 1..n : a # b => s[a] # s[b]} } :
            n \in 0..MaxFiles }

InitFind ==
    /\ pc = "start"
    /\ archive \in FindListings
    /\ \E h \in FindHrefs : env = [href |-> h]
    /\ ncx = [NavPoints |-> <<>>]
    /\ toc = <<>>
    /\ entries = <<>>
    /\ ranges = <<>>
    /\ chapters = <<>>
    /\ err = ""
    /\ text = <<>>
    /\ parts = <<>>
    /\ trace = <<>>

\* one call of GetChapterContentRange without a next reference
CallFind ==
    /\ pc = "start"
    /\ ranges' = <<GetChapterContentRange(archive, env.href, <<>>)>>
    /\ pc' = "done"
    /\ UNCHANGED <<ncx, toc, archive, entries, chapters, err, text, parts,
                   trace, env>>

SpecFind == InitFind /\ [][CallFind]_vars

\* C19 as stated: when an entry is named exactly as the reference path, that
\* entry is the one read, wherever the entries ending with the path stand in
\* the listing; a path that no entry name ends with gives the not-found error
C19_ExactPreferred ==
    pc = "done" =>
        LET p      == Clean(env.href)
            exact  == {k \in 1..Len(archive) : archive[k].Name = p}
            ending == {k \in 1..Len(archive) : HasSuffix(archive[k].Name, p)}
        IN  IF ending = {}
            THEN ranges[1].err = "chapter file not found"
            ELSE /\ ranges[1].err = ""
                 /\ exact # {} =>
                       /\ ranges[1].file \in exact
                       /\ ranges[1].content
                              = htmlToText(archive[ranges[1].file].Data)

-----------------------------------------------------------------------------
(* The loop of removeTag, one iteration per step, on strings of bytes.      *)

MaxPieces == 4

ScriptTag == <<"s","c","r","i","p","t">>
OpenScript == <<"<">> \o ScriptTag
CloseScript == <<"<","/">> \o ScriptTag \o <<">">>

\* U+023A, two bytes
AStroke == <<"C8", "BA">>

\* the pieces an input is made of: the opening in either case, the closing
\* tag, a letter, U+023A once and eight times
RemovePieces ==
    { OpenScript, ToUpper(OpenScript), CloseScript, <<"x">>, AStroke,
      AStroke \o AStroke \o AStroke \o AStroke
          \o AStroke \o AStroke \o AStroke \o AStroke }

InitRemove ==
    /\ pc = "loop"
    /\ \E n \in 0..MaxPieces : \E ps \in [1..n -> RemovePieces] :
           text = Concat(ps)
    /\ env = [input |-> text, before |-> text, steps |-> 0]
    /\ ncx = [NavPoints |-> <<>>]
    /\ toc = <<>>
    /\ archive = <<>>
    /\ entries = <<>>
    /\ ranges = <<>>
    /\ chapters = <<>>
    /\ err = ""
    /\ parts = <<>>
    /\ trace = <<>>

\* an iteration that reaches the assignment to html
RemoveRegion ==
    /\ pc = "loop"
    /\ \E r \in {removeTagStep(text, ScriptTag)} :
           /\ r.outcome = "continue"
           /\ text' = r.html
    /\ env' = [env EXCEPT !.before = text, !.steps = @ + 1]
    /\ UNCHANGED <<pc, ncx, toc, archive, entries, ranges, chapters, err,
                   parts, trace>>

\* an iteration that leaves the loop at a break; removeTag returns html
RemoveBreak ==
    /\ pc = "loop"
    /\ removeTagStep(text, ScriptTag).outcome = "break"
    /\ pc' = "done"
    /\ UNCHANGED <<ncx, toc, archive, entries, ranges, chapters, err, text,
                   parts, trace, env>>

\* an iteration whose html[start:] is out of range; removeTag does not return
RemovePanic ==
    /\ pc = "loop"
    /\ removeTagStep(text, ScriptTag).outcome = "panic"
    /\ pc' = "panic"
    /\ UNCHANGED <<ncx, toc, archive, entries, ranges, chapters, err, text,
                   parts, trace, env>>

NextRemove == RemoveRegion \/ RemoveBreak \/ RemovePanic

SpecRemove == InitRemove /\ [][NextRemove]_vars

\* offsets at which the opening is written in html, in either case
OpeningOffsets(html) ==
    {i \in 0..(Len(html) - Len(OpenScript)) :
        \A k \in 1..Len(OpenScript) : ToLowerChar(html[i + k]) = OpenScript[k]}

\* offsets of the closing tags after the first opening of html
ClosingOffsets(html) ==
    {j \in Occurrences(html, CloseScript) : j >= Min(OpeningOffsets(html))}

\* C20 as stated: the call returns on every input; every iteration removes
\* the region from the first opening through the next closing tag and
\* shortens the string; the loop stops only when no opening is left or no
\* closing tag follows the first opening
C20_RemoveTag ==
    /\ pc # "panic"
    /\ env.steps > 0 =>
          /\ OpeningOffsets(env.before) # {}
          /\ ClosingOffsets(env.before) # {}
          /\ text = Slice(env.before, 0, Min(OpeningOffsets(env.before)))
                    \o SliceFrom(env.before,
                                 Min(ClosingOffsets(env.before)) + Len(CloseScript))
          /\ Len(text) < Len(env.before)
    /\ pc = "done" =>
          \/ OpeningOffsets(text) = {}
          \/ ClosingOffsets(text) = {}

-----------------------------------------------------------------------------
(* Chapter.Summary, one statement per step: the comparison, the cut, each   *)
(* read of text[i] in the backward scan, and the two returns after it.      *)

MaxContentLen == 22
MaxSummaryLen == 22

\* the scan stops above maxLen - 20
SummaryWindow == 20

\* contents of n bytes: letters, with a space at each offset of sp
SummaryContent(n, sp) == [k \in 1..n |-> IF (k - 1) \in sp THEN " " ELSE "a"]

\* contents with no space, one space or two
SummaryContents ==
    { SummaryContent(n, sp) :
        n \in 0..MaxContentLen,
        sp \in { {} } \cup { {a, b} : a, b \in 0..MaxContentLen } }

InitSummary ==
    /\ pc = "start"
    /\ \E c \in SummaryContents : \E m \in 0..MaxSummaryLen :
           env = [Content |-> c, maxLen |-> m, i |-> 0, out |-> <<>>,
                  reads |-> {}]
    /\ text = <<>>
    /\ ncx = [NavPoints |-> <<>>]
    /\ toc = <<>>
    /\ archive = <<>>
    /\ entries = <<>>
    /\ ranges = <<>>
    /\ chapters = <<>>
    /\ err = ""
    /\ parts = <<>>
    /\ trace = <<>>

\* len(c.Content) <= maxLen: return c.Content
SummaryWhole ==
    /\ pc = "start"
    /\ Len(env.Content) <= env.maxLen
    /\ env' = [env EXCEPT !.out = env.Content]
    /\ pc' = "done"
    /\ UNCHANGED <<ncx, toc, archive, entries, ranges, chapters, err, text,
                   parts, trace>>

\* text := c.Content[:maxLen]; i := len(text) - 1
SummaryCut ==
    /\ pc = "start"
    /\ Len(env.Content) > env.maxLen
    /\ text' = Slice(env.Content, 0, env.maxLen)
    /\ env' = [env EXCEPT !.i = env.maxLen - 1]
    /\ pc' = "scan"
    /\ UNCHANGED <<ncx, toc, archive, entries, ranges, chapters, err, parts,
                   trace>>

\* i > maxLen-20 and text[i] is a space: return text[:i] + "..."
SummaryAtSpace ==
    /\ pc = "scan"
    /\ env.i > env.maxLen - SummaryWindow
    /\ env.i \in 0..(Len(text) - 1)
    /\ text[env.i + 1] = " "
    /\ env' = [env EXCEPT !.out = Slice(text, 0, env.i) \o <<".", ".", ".">>,
                          !.reads = @ \cup {env.i}]
    /\ pc' = "done"
    /\ UNCHANGED <<ncx, toc, archive, entries, ranges, chapters, err, text,
                   parts, trace>>

\* i > maxLen-20 and text[i] is no space: i--
SummaryBack ==
    /\ pc = "scan"
    /\ env.i > env.maxLen - SummaryWindow
    /\ env.i \in 0..(Len(text) - 1)
    /\ text[env.i + 1] # " "
    /\ env' = [env EXCEPT !.i = @ - 1, !.reads = @ \cup {env.i}]
    /\ UNCHANGED <<pc, ncx, toc, archive, entries, ranges, chapters, err,
                   text, parts, trace>>

\* i > maxLen-20 and i is no index of text: text[i] panics
SummaryPanic ==
    /\ pc = "scan"
    /\ env.i > env.maxLen - SummaryWindow
    /\ env.i \notin 0..(Len(text) - 1)
    /\ env' = [env EXCEPT !.reads = @ \cup {env.i}]
    /\ pc' = "panic"
    /\ UNCHANGED <<ncx, toc, archive, entries, ranges, chapters, err, text,
                   parts, trace>>

\* the loop condition fails: return text + "..."
SummaryNoSpace ==
    /\ pc = "scan"
    /\ ~(env.i > env.maxLen - SummaryWindow)
    /\ env' = [env EXCEPT !.out = text \o <<".", ".", ".">>]
    /\ pc' = "done"
    /\ UNCHANGED <<ncx, toc, archive, entries, ranges, chapters, err, text,
                   parts, trace>>

NextSummary ==
    \/ SummaryWhole
    \/ SummaryCut
    \/ SummaryAtSpace
    \/ SummaryBack
    \/ SummaryPanic
    \/ SummaryNoSpace

SpecSummary == InitSummary /\ [][NextSummary]_vars

\* C21 as stated: Summary returns for every Content and every maxLen >= 0,
\* the scan reads only offsets in [0, maxLen-1], a Content of at most maxLen
\* bytes is returned unchanged, and a longer one gives a prefix of at most
\* maxLen bytes followed by "..."
C21_SummaryInRange ==
    /\ pc # "panic"
    /\ \A j \in env.reads : 0 <= j /\ j <= env.maxLen - 1
    /\ pc = "done" =>
          IF Len(env.Content) <= env.maxLen
          THEN env.out = env.Content
          ELSE \E n \in 0..env.maxLen :
                   env.out = Slice(env.Content, 0, n) \o <<".", ".", ".">>

=============================================================================
